---- MODULE Spec2Model ----
(***************************************************************************)
(* A model of the static-analysis core of trueseeing:                      *)
(*   - core/code/parse.py : the smali lexer/parser (class P) and the       *)
(*     indexer (SmaliAnalyzer.analyze);                                    *)
(*   - signature/security.py : the security detectors.                     *)
(* Strings are sequences of one-character strings, so that the lexer's     *)
(* regular expression and the substring tests act on characters.           *)
(***************************************************************************)
EXTENDS Integers, Sequences, FiniteSets, TLC

(***************************************************************************)
(* Bounds of the model.                                                    *)
(***************************************************************************)
\* lines of the text handed to P.parsed_flat (and of the first smali file)
MaxLines == 3
\* smali files enumerated by one analysis
MaxFiles == 2
\* lines of the smali files after the first one
MaxTailLines == 1

(***************************************************************************)
(* Characters and character classes of the lexer's regular expression.     *)
(***************************************************************************)
NL == "\n"

Lower ==
  {"a", "b", "c", "d", "e", "f", "g", "h", "i", "j", "k", "l", "m",
   "n", "o", "p", "q", "r", "s", "t", "u", "v", "w", "x", "y", "z"}

Digit == {"0", "1", "2", "3", "4", "5", "6", "7", "8", "9"}

\* \s
Whitespace == {" ", "\t"}

\* [a-z0-9_-]
LabelCh == Lower \cup Digit \cup {"_", "-"}

\* [vp]
RegCh == {"v", "p"}

\* the literals the parser and the indexer compare against
S_line == <<"l", "i", "n", "e">>
S_class == <<"c", "l", "a", "s", "s">>
S_annotation == <<"a", "n", "n", "o", "t", "a", "t", "i", "o", "n">>
S_param == <<"p", "a", "r", "a", "m">>
S_end_annotation ==
  <<".", "e", "n", "d", " ", "a", "n", "n", "o", "t", "a", "t", "i", "o", "n">>
S_end_param == <<".", "e", "n", "d", " ", "p", "a", "r", "a", "m">>

(***************************************************************************)
(* Greedy runs: the number of consecutive characters of l, from position   *)
(* i on, that are in S (Run) or are not in S (RunNot).                     *)
(***************************************************************************)
RECURSIVE Run(_, _, _)
Run(l, i, S) ==
  IF i > Len(l) \/ l[i] \notin S THEN 0 ELSE 1 + Run(l, i + 1, S)

RECURSIVE RunNot(_, _, _)
RunNot(l, i, S) ==
  IF i > Len(l) \/ l[i] \in S THEN 0 ELSE 1 + RunNot(l, i + 1, S)

\* the characters l[a..b] (empty when b < a)
Sub(l, a, b) == IF b < a THEN <<>> ELSE SubSeq(l, a, b)

\* model.Op(t, v): a token, with an empty parameter list
Op(t, v) == [t |-> t, v |-> v, p |-> <<>>, content |-> <<>>]

\* Token.eq(t, v)
OpEq(o, t, v) == o.t = t /\ o.v = v

\* model.Annotation(v, p, content)
Annotation(v, p, content) ==
  [t |-> "annotation", v |-> v, p |-> p, content |-> content]

\* model.Param(v, p, content)
Param(v, p, content) ==
  [t |-> "param", v |-> v, p |-> p, content |-> content]

(***************************************************************************)
(* The alternatives of the regular expression of P._lexed_as_smali, each   *)
(* tried at position i of line l.  A match is [n, key, v]: the number of   *)
(* characters matched (0: no match), the name of the group and its text.   *)
(***************************************************************************)
NoMatch == [n |-> 0, key |-> "", v |-> <<>>]

\* a match of n characters of group key, whose text is l[a..b]
Match(l, n, key, a, b) == [n |-> n, key |-> key, v |-> Sub(l, a, b)]

\* :(?P<label>[a-z0-9_-]+)
MLabel(l, i) ==
  LET r == Run(l, i + 1, LabelCh)
  IN IF l[i] = ":" /\ r >= 1 THEN Match(l, 1 + r, "label", i + 1, i + r)
     ELSE NoMatch

\* {\s*(?P<multilabel>(?::[a-z0-9_-]+(?: .. )*)+\s*)}
(***************************************************************************)
(* The backtracking search in the order of the regex engine: the label     *)
(* name as long as possible, then as many " .. " as possible, then another *)
(* label, then the closing whitespace and brace.  Each operator gives the  *)
(* position of the closing brace of the first match found, 0 when none.    *)
(***************************************************************************)
RECURSIVE MLItem(_, _)
RECURSIVE MLName(_, _, _)
RECURSIVE MLDots(_, _)

\* the first of the alternatives a, b that is not 0
OrElse(a, b) == IF a # 0 THEN a ELSE b

\* \s*} at position p
MLClose(l, p) ==
  LET w == Run(l, p, Whitespace)
  IN IF p + w <= Len(l) /\ l[p + w] = "}" THEN p + w ELSE 0

\* after a label name: the " .. " runs, greedy, then the next item or the close
MLDots(l, p) ==
  OrElse(IF p + 3 <= Len(l) /\ l[p] = " " /\ l[p + 3] = " "
         THEN MLDots(l, p + 4) ELSE 0,
         OrElse(MLItem(l, p), MLClose(l, p)))

\* a label name of k characters at j + 1 .. j + k, k tried downwards
MLName(l, j, k) ==
  IF k < 1 THEN 0
  ELSE OrElse(MLDots(l, j + 1 + k), MLName(l, j, k - 1))

\* one label item, a colon and a name and its " .. " runs, at position j
MLItem(l, j) ==
  IF j <= Len(l) /\ l[j] = ":"
  THEN MLName(l, j, Run(l, j + 1, LabelCh))
  ELSE 0

\* j: the position after the brace and the whitespace; e: the closing brace
MMultilabel(l, i) ==
  LET j == i + 1 + Run(l, i + 1, Whitespace)
      e == IF l[i] = "{" THEN MLItem(l, j) ELSE 0
  IN IF e # 0 THEN Match(l, e - i + 1, "multilabel", j, e - 1) ELSE NoMatch

\* \.(?P<directive>[a-z0-9_-]+)
MDirective(l, i) ==
  LET r == Run(l, i + 1, LabelCh)
  IN IF l[i] = "." /\ r >= 1 THEN Match(l, 1 + r, "directive", i + 1, i + r)
     ELSE NoMatch

\* the greatest element of a non-empty set of numbers
Max(S) == CHOOSE j \in S : \A k \in S : k <= j

\* "(?P<string>.*)", greedy: up to the last of the later quotes qs of the line
MString(l, i) ==
  LET qs == {j \in (i + 1)..Len(l) : l[j] = "\""}
  IN IF l[i] = "\"" /\ qs # {}
     THEN Match(l, Max(qs) - i + 1, "string", i + 1, Max(qs) - 1)
     ELSE NoMatch

\* #(?P<comment>.*)
MComment(l, i) ==
  IF l[i] = "#" THEN Match(l, Len(l) - i + 1, "comment", i + 1, Len(l))
  ELSE NoMatch

\* (?P<reg>[vp][0-9]+)
MReg(l, i) ==
  LET r == Run(l, i + 1, Digit)
  IN IF l[i] \in RegCh /\ r >= 1 THEN Match(l, 1 + r, "reg", i, i + r)
     ELSE NoMatch

\* {(?P<multireg>[vp0-9,. ]+)}
MMultireg(l, i) ==
  LET r == Run(l, i + 1, RegCh \cup Digit \cup {",", ".", " "})
  IN IF l[i] = "{" /\ r >= 1 /\ i + 1 + r <= Len(l) /\ l[i + 1 + r] = "}"
     THEN Match(l, r + 2, "multireg", i + 1, i + r)
     ELSE NoMatch

\* (?P<id>[a-z][a-z/-]*[a-z0-9/-]*), e being the last position of the two runs
MId(l, i) ==
  LET r1 == Run(l, i + 1, Lower \cup {"/", "-"})
      e == i + r1 + Run(l, i + 1 + r1, Lower \cup Digit \cup {"/", "-"})
  IN IF l[i] \in Lower THEN Match(l, e - i + 1, "id", i, e) ELSE NoMatch

\* (?P<reflike>[^ ]+)
MReflike(l, i) ==
  LET r == RunNot(l, i, {" "})
  IN IF r >= 1 THEN Match(l, r, "reflike", i, i + r - 1) ELSE NoMatch

\* the alternatives in the order of the regular expression
Alternatives(l, i) ==
  <<MLabel(l, i), MMultilabel(l, i), MDirective(l, i), MString(l, i),
    MComment(l, i), MReg(l, i), MMultireg(l, i), MId(l, i), MReflike(l, i)>>

\* the first of the alternatives a that matches
FirstMatch(a) ==
  IF \A k \in 1..Len(a) : a[k].n = 0 THEN NoMatch
  ELSE a[CHOOSE k \in 1..Len(a) :
              a[k].n > 0 /\ \A j \in 1..(k - 1) : a[j].n = 0]

\* the match at position i
MatchAt(l, i) == FirstMatch(Alternatives(l, i))

(***************************************************************************)
(* P._lexed_as_smali: re.finditer over the line; a reflike "," is dropped. *)
(***************************************************************************)
RECURSIVE LexFrom(_, _)

\* the tokens from position i on, m being the match at i
LexMatch(l, i, m) ==
  IF m.n = 0 THEN LexFrom(l, i + 1)
  ELSE (IF m.key = "reflike" /\ m.v = <<",">> THEN <<>>
        ELSE <<Op(m.key, m.v)>>) \o LexFrom(l, i + m.n)

LexFrom(l, i) == IF i > Len(l) THEN <<>> ELSE LexMatch(l, i, MatchAt(l, i))

lexed_as_smali(l) == LexFrom(l, 1)

(***************************************************************************)
(* P._head_and_tail and P._parsed_as_op.  xs[0] of an empty list raises    *)
(* IndexError, and the handler's own xs[0] raises it again: a line that    *)
(* lexes to no token makes _parsed_as_op raise, which the model writes as  *)
(* the value Raised("IndexError").                                         *)
(***************************************************************************)
Raised(exc) == [exc |-> exc]

IsRaised(x) == DOMAIN x = {"exc"}

head_and_tail(xs) ==
  IF Len(xs) = 0 THEN Raised("IndexError")
  ELSE <<xs[1], Sub(xs, 2, Len(xs))>>

\* `if xs: x.p = xs`, ht being the head and tail
WithParams(ht) ==
  IF IsRaised(ht) THEN ht
  ELSE IF ht[2] # <<>> THEN [ht[1] EXCEPT !.p = ht[2]]
  ELSE ht[1]

parsed_as_op(l) == WithParams(head_and_tail(lexed_as_smali(l)))

\* pat in l (substring test)
Contains(l, pat) ==
  \E i \in 1..(Len(l) - Len(pat) + 1) : SubSeq(l, i, i + Len(pat) - 1) = pat

\* the number of lines popped by the capture loop of
\* P._parsed_as_annotation_content / P._parsed_as_param_content, whose end
\* marker is pat: the lines before the first one containing pat, or all of them
RECURSIVE CaptureLen(_, _)
CaptureLen(qq, pat) ==
  IF qq = <<>> \/ Contains(Head(qq), pat) THEN 0
  ELSE 1 + CaptureLen(Tail(qq), pat)

\* the capture loop popping the line with the end marker as well
parsed_as_annotation_content_Inclusive(qq) ==
  IF CaptureLen(qq, S_end_annotation) < Len(qq)
  THEN Sub(qq, 1, CaptureLen(qq, S_end_annotation) + 1)
  ELSE qq

parsed_as_annotation_content(qq) ==
  Sub(qq, 1, CaptureLen(qq, S_end_annotation))

parsed_as_param_content(qq) == Sub(qq, 1, CaptureLen(qq, S_end_param))

(***************************************************************************)
(* One iteration of the while loop of P.parsed_flat on the deque qq        *)
(* (non-empty): the deque left, the op yielded if any (out), the exception *)
(* raised if any (exc) and the number of lines captured into a block.      *)
(***************************************************************************)
ParseResult(qq, out, exc, ncap) ==
  [q |-> qq, out |-> out, exc |-> exc, ncap |-> ncap]

\* the op yielded with the block c captured from the front of the deque q1
YieldBlock(q1, t, c) ==
  ParseResult(Sub(q1, Len(c) + 1, Len(q1)), <<t>>, "", Len(c))

\* the branches of the loop body, t being the op parsed from the line popped
\* (or the exception _parsed_as_op raised) and q1 the rest of the deque
parsed_flat_op(q1, t) ==
  IF IsRaised(t) THEN ParseResult(q1, <<>>, t.exc, 0)
  ELSE IF OpEq(t, "directive", S_annotation)
  THEN YieldBlock(q1, Annotation(t.v, t.p, parsed_as_annotation_content(q1)),
                  parsed_as_annotation_content(q1))
  ELSE IF OpEq(t, "directive", S_param)
  THEN IF t.p = <<>> THEN ParseResult(q1, <<>>, "AssertionError", 0)
       ELSE IF Len(t.p) = 1
       THEN YieldBlock(q1, Param(t.v, t.p, parsed_as_param_content(q1)),
                       parsed_as_param_content(q1))
       ELSE ParseResult(q1, <<t>>, "", 0)
  ELSE ParseResult(q1, <<t>>, "", 0)

parsed_flat_iter(qq) ==
  IF Head(qq) = <<>> THEN ParseResult(Tail(qq), <<>>, "", 0)
  ELSE parsed_flat_op(Tail(qq), parsed_as_op(Head(qq)))

(***************************************************************************)
(* re.split(r'\n+', s): the pieces of s between the runs of newlines, with *)
(* an empty piece before a leading and after a trailing run.               *)
(***************************************************************************)
RECURSIVE SplitFrom(_, _, _)
SplitFrom(s, i, cur) ==
  IF i > Len(s) THEN <<cur>>
  ELSE IF s[i] = NL
       THEN <<cur>> \o SplitFrom(s, i + Run(s, i, {NL}), <<>>)
       ELSE SplitFrom(s, i + 1, Append(cur, s[i]))

Split(s) == SplitFrom(s, 1, <<>>)

(***************************************************************************)
(* The texts the model feeds to the parser: up to n lines of a vocabulary, *)
(* joined by newlines; a "blank" text has a leading newline, doubled       *)
(* separators and a trailing newline.                                      *)
(***************************************************************************)
ParseVocabulary ==
  { <<".", "c", "l", "a", "s", "s", " ", "A">>,
    <<".", "l", "i", "n", "e", " ", "1">>,
    <<".", "a", "n", "n", "o", "t", "a", "t", "i", "o", "n", " ", "a">>,
    S_end_annotation,
    <<".", "p", "a", "r", "a", "m", " ", "p", "1">>,
    S_end_param,
    <<".", "p", "a", "r", "a", "m", " ", "p", "1", ",", " ", "x">>,
    <<"m", "o", "v", "e", " ", "v", "0", ",", " ", "v", "1">>,
    <<"x", " ", "\"", ".", "e", "n", "d", " ", "p", "a", "r", "a", "m", "\"">>,
    <<".", "p", "a", "r", "a", "m">>,
    <<" ">> }

RECURSIVE JoinLines(_, _)
JoinLines(ls, sep) ==
  IF ls = <<>> THEN <<>>
  ELSE IF Len(ls) = 1 THEN ls[1]
  ELSE ls[1] \o sep \o JoinLines(Tail(ls), sep)

\* the texts of at most n lines of the vocabulary, joined by single
\* newlines, or by blank lines and with a leading and a trailing newline
Texts(vocabulary, n) ==
  UNION { { JoinLines(ls, <<NL>>) : ls \in [1..k -> vocabulary] }
            \cup { <<NL>> \o JoinLines(ls, <<NL, NL>>) \o <<NL>> :
                     ls \in [1..k -> vocabulary] }
          : k \in 0..n }

\* the lines of the first smali file
IndexVocabulary ==
  { <<".", "c", "l", "a", "s", "s", " ", "A">>,
    <<".", "l", "i", "n", "e", " ", "1">>,
    <<".", "a", "n", "n", "o", "t", "a", "t", "i", "o", "n", " ", "a">>,
    S_end_annotation,
    <<".", "p", "a", "r", "a", "m", " ", "p", "1">>,
    <<"m", "o", "v", "e", " ", "v", "0", ",", " ", "v", "1">>,
    <<" ">> }

\* the lines of the smali files after the first
TailVocabulary ==
  { <<".", "c", "l", "a", "s", "s", " ", "A">>,
    <<".", "l", "i", "n", "e", " ", "1">>,
    <<".", "a", "n", "n", "o", "t", "a", "t", "i", "o", "n", " ", "a">>,
    <<"m", "o", "v", "e", " ", "v", "0", ",", " ", "v", "1">> }

\* the blobs file_enum('smali/%.smali') may yield as its (k+1)-th file
FileTexts(k) ==
  IF k = 0 THEN Texts(IndexVocabulary, MaxLines)
  ELSE Texts(TailVocabulary, MaxTailLines)

(***************************************************************************)
(* State.                                                                  *)
(***************************************************************************)
VARIABLES
  \* P.parsed_flat: the deque q; the op sequence yielded so far, each with
  \* the number of its source line; the generator's position
  q, yielded, ppc,
  \* history: the split text being parsed, and the numbers of its lines
  \* that were captured into an annotation/param block
  lines, captured,
  \* SmaliAnalyzer.analyze: position, locals and the store
  pc, base_id, analyzed_ops, last_seen, ops, classmap, nfiles,
  \* history: the source line number of each op of the batch `ops`
  opline,
  \* the store: transaction state, the id column of the ops table, the
  \* class map table, and the calls made on the store, in order
  txn, stored, stored_classmap, log,
  \* a detector's run: its position, the index of the next item of the
  \* loop it is in, and the issues given to _raise_issue, in order
  dpc, di, issues,
  \* the analysis context of the run: the minimum SDK version, whether the
  \* manifest has a debuggable application, and the XML resources
  min_sdk, debuggable, resources,
  \* the store as the queries of the run see it: the call sites of the
  \* detector's first query, the call sites of the query nested in it, and
  \* the methods and classes the pinning detection asks for
  sites, inner_sites, trust_methods, init_typesets, verifier_methods,
  \* the locals pin_nsc of SecurityTlsInterceptionDetector.detect and
  \* targets of SecurityInsecureWebViewDetector.detect
  pin_nsc, targets,
  \* the layout file of the run: its path, its elements of a WebView-like
  \* class; history: the size guessed for each element
  layout_path, elements, guessed,
  \* the parent of each of these elements
  parents,
  \* the classes of the store, and the local more of the closure loops
  classes, more,
  \* SecurityInsecureRootedDetector.detect: the locals found and
  \* attestations
  found, attestations,
  \* the issues of an earlier run of the detector on the same store
  previous,
  \* the lines CIReportGenerator.generate has written
  written

parseVars == <<q, yielded, ppc, lines, captured>>

detectorVars ==
  <<dpc, di, issues, min_sdk, debuggable, resources, sites, inner_sites,
    trust_methods, init_typesets, verifier_methods, pin_nsc, targets,
    layout_path, elements, guessed, parents, classes, more, found,
    attestations, previous, written>>

indexVars ==
  <<pc, base_id, analyzed_ops, last_seen, ops, classmap, nfiles, opline,
    txn, stored, stored_classmap, log>>

vars == <<parseVars, indexVars, detectorVars>>

\* no detector runs
DetectorsIdle ==
  /\ dpc = "idle"
  /\ di = 0
  /\ issues = <<>>
  /\ min_sdk = 0
  /\ debuggable = FALSE
  /\ resources = <<>>
  /\ sites = <<>>
  /\ inner_sites = <<>>
  /\ trust_methods = {}
  /\ init_typesets = {}
  /\ verifier_methods = {}
  /\ pin_nsc = FALSE
  /\ targets = {}
  /\ layout_path = <<>>
  /\ elements = <<>>
  /\ guessed = <<>>
  /\ parents = <<>> /\ classes = {} /\ more = FALSE /\ found = {}
  /\ attestations = {} /\ previous = <<>> /\ written = <<>>

\* Python's None for an integer field (_id before assignment, `start`)
None == 0

(***************************************************************************)
(* The parser as a state machine: one action per iteration of the while    *)
(* loop of P.parsed_flat.                                                  *)
(***************************************************************************)
\* the number (from 1) of the source line at the head of the deque
LineNo == Len(lines) - Len(q) + 1

ParseStart(text) ==
  /\ lines' = Split(text)
  /\ q' = Split(text)
  /\ yielded' = <<>>
  /\ captured' = {}
  /\ ppc' = "run"

\* one iteration: pop a line, parse it, capture its block, yield or raise;
\* r is the result of the iteration
ParseApply(r) ==
  /\ q' = r.q
  /\ yielded' =
       yielded \o [i \in 1..Len(r.out) |-> [op |-> r.out[i], ln |-> LineNo]]
  /\ captured' = captured \cup ((LineNo + 1)..(LineNo + r.ncap))
  /\ ppc' = IF r.exc # "" THEN r.exc ELSE "run"
  /\ UNCHANGED lines

ParseIterate == ParseApply(parsed_flat_iter(q))

\* the deque is empty: the generator returns
ParseFinish ==
  /\ ppc' = "done"
  /\ UNCHANGED <<q, yielded, lines, captured>>

IndexIdle ==
  /\ pc = "idle"
  /\ base_id = 1
  /\ analyzed_ops = 0
  /\ last_seen = 0
  /\ ops = <<>>
  /\ opline = <<>>
  /\ classmap = {}
  /\ nfiles = 0
  /\ txn = "none"
  /\ stored = <<>>
  /\ stored_classmap = {}
  /\ log = <<>>

\* P.parsed_flat(text) consumed to its end, for every text
PInit ==
  /\ \E text \in Texts(ParseVocabulary, MaxLines) :
       /\ lines = Split(text)
       /\ q = Split(text)
  /\ yielded = <<>>
  /\ captured = {}
  /\ ppc = "run"
  /\ IndexIdle
  /\ DetectorsIdle

PIterate ==
  /\ ppc = "run"
  /\ q # <<>>
  /\ ParseIterate
  /\ UNCHANGED indexVars
  /\ UNCHANGED detectorVars

PFinish ==
  /\ ppc = "run"
  /\ q = <<>>
  /\ ParseFinish
  /\ UNCHANGED indexVars
  /\ UNCHANGED detectorVars

SpecParse == PInit /\ [][PIterate \/ PFinish]_vars

(***************************************************************************)
(* SmaliAnalyzer.analyze.                                                  *)
(***************************************************************************)
\* progress pacing: one update every TtyPace ops on a tty, PlainPace otherwise
TtyPace == 65536
PlainPace == 131072

\* Retained without the test of lines 48-49
Retained_NoLineDrop(op) == ~(op.t = "annotation" \/ op.t = "param")

\* lines 48-51: the head ops the indexer keeps
Retained(op) ==
  /\ ~OpEq(op, "directive", S_line)
  /\ ~(op.t = "annotation" \/ op.t = "param")

\* an op as an entry of the batch, with its _idx and its _id
BatchOp(o, idx) ==
  [t |-> o.t, v |-> o.v, p |-> o.p, content |-> o.content,
   idx |-> idx, id |-> None]

\* Enumerated counting from 1
Enumerated_FromOne(xs) == [i \in 1..Len(xs) |-> BatchOp(xs[i], i)]

\* lines 52-54: enumerate(tuple([op] + op.p)), xs being [op] + op.p
Enumerated(xs) == [i \in 1..Len(xs) |-> BatchOp(xs[i], i - 1)]

\* AssignIds incrementing base_id before, not after, the assignment
AssignIds_IncrFirst(batch, base) ==
  [i \in 1..Len(batch) |-> [batch[i] EXCEPT !.id = base + i]]

\* lines 55-57: identifiers from base on, in the order of the batch
AssignIds(batch, base) ==
  [i \in 1..Len(batch) |-> [batch[i] EXCEPT !.id = base + i - 1]]

\* ClassStart without the `break`: the last `directive class` op wins
ClassStart_NoBreak(batch) ==
  IF \A i \in 1..Len(batch) : ~OpEq(batch[i], "directive", S_class) THEN None
  ELSE batch[CHOOSE i \in 1..Len(batch) :
                /\ OpEq(batch[i], "directive", S_class)
                /\ \A j \in (i + 1)..Len(batch) :
                     ~OpEq(batch[j], "directive", S_class)].id

\* lines 60-64: the id of the first `directive class` op of the batch
ClassStart(batch) ==
  IF \A i \in 1..Len(batch) : ~OpEq(batch[i], "directive", S_class) THEN None
  ELSE batch[CHOOSE i \in 1..Len(batch) :
                /\ OpEq(batch[i], "directive", S_class)
                /\ \A j \in 1..(i - 1) : ~OpEq(batch[j], "directive", S_class)].id

\* lines 65-66: `if start: classmap.add((start, ops[-1]._id))`
ClassRange(batch, start) ==
  IF start # None /\ start # 0 THEN {<<start, batch[Len(batch)].id>>} ELSE {}

\* Store.op_store_ops: the rows added to the ops table (their id column)
op_store_ops(table, batch) == table \o [i \in 1..Len(batch) |-> batch[i].id]

\* Store.op_count_ops: the number of rows of the ops table
op_count_ops(table) == Len(table)

\* a call on the store, with the state of the transaction it is made in
Call(name) == [call |-> name, txn |-> txn]

\* lines 68-77: the progress display
Paced(tty) ==
  IF analyzed_ops - last_seen > (IF tty THEN TtyPace ELSE PlainPace)
  THEN analyzed_ops ELSE last_seen

Init ==
  /\ q = <<>>
  /\ yielded = <<>>
  /\ ppc = "idle"
  /\ lines = <<>>
  /\ captured = {}
  /\ pc = "start"
  /\ base_id = 1
  /\ analyzed_ops = 0
  /\ last_seen = 0
  /\ ops = <<>>
  /\ opline = <<>>
  /\ classmap = {}
  /\ nfiles = 0
  /\ txn = "none"
  /\ stored = <<>>
  /\ stored_classmap = {}
  /\ log = <<>>
  /\ DetectorsIdle

\* lines 39-42: enter the connection, begin the exclusive transaction
Begin ==
  /\ pc = "start"
  /\ txn' = "exclusive"
  /\ log' = Append(log, Call("begin exclusive"))
  /\ base_id' = 1
  /\ last_seen' = analyzed_ops
  /\ pc' = "files"
  /\ UNCHANGED <<parseVars, analyzed_ops, ops, opline, classmap, nfiles,
                 stored, stored_classmap>>
  /\ UNCHANGED detectorVars

\* lines 44-46: file_enum yields one more file; its text is split
NextFile ==
  /\ pc = "files"
  /\ nfiles < MaxFiles
  /\ \E text \in FileTexts(nfiles) : ParseStart(text)
  /\ ops' = <<>>
  /\ opline' = <<>>
  /\ nfiles' = nfiles + 1
  /\ pc' = "parse"
  /\ UNCHANGED <<base_id, analyzed_ops, last_seen, classmap, txn, stored,
                 stored_classmap, log>>
  /\ UNCHANGED detectorVars

\* lines 46-54 for the result r of one iteration of the generator: an
\* exception leaves the `with` block, which rolls the transaction back
IndexApply(r) ==
  /\ ParseApply(r)
  /\ IF r.exc # ""
     THEN /\ pc' = "raised"
          /\ txn' = "rolledback"
          /\ stored' = <<>>
          /\ log' = Append(log, Call("rollback"))
          /\ UNCHANGED <<analyzed_ops, ops, opline>>
     ELSE /\ analyzed_ops' = analyzed_ops + Len(r.out)
          /\ IF r.out # <<>> /\ Retained(r.out[1])
             THEN /\ ops' = ops \o Enumerated(<<r.out[1]>> \o r.out[1].p)
                  /\ opline' = opline \o [i \in 1..(1 + Len(r.out[1].p)) |-> LineNo]
             ELSE UNCHANGED <<ops, opline>>
          /\ UNCHANGED <<pc, txn, stored, log>>
  /\ UNCHANGED <<base_id, last_seen, classmap, nfiles, stored_classmap>>

IndexOp ==
  /\ pc = "parse"
  /\ q # <<>>
  /\ IndexApply(parsed_flat_iter(q))
  /\ UNCHANGED detectorVars

\* lines 55-77 for the batch with its identifiers assigned
StoreBatch(batch) ==
  /\ ops' = batch
  /\ base_id' = base_id + Len(batch)
  /\ stored' = op_store_ops(stored, batch)
  /\ log' = Append(log, Call("op_store_ops"))
  /\ classmap' = classmap \cup ClassRange(batch, ClassStart(batch))
  /\ \E tty \in BOOLEAN : last_seen' = Paced(tty)
  /\ pc' = "files"
  /\ UNCHANGED <<opline, analyzed_ops, nfiles, txn, stored_classmap>>

\* the generator is exhausted: the rest of the loop body
StoreFile ==
  /\ pc = "parse"
  /\ q = <<>>
  /\ ParseFinish
  /\ StoreBatch(AssignIds(ops, base_id))
  /\ UNCHANGED detectorVars

\* line 79, after the last file
CountOps ==
  /\ pc = "files"
  /\ analyzed_ops' = op_count_ops(stored)
  /\ log' = Append(log, Call("op_count_ops"))
  /\ pc' = "classmap"
  /\ UNCHANGED <<parseVars, base_id, last_seen, ops, opline, classmap, nfiles,
                 txn, stored, stored_classmap>>
  /\ UNCHANGED detectorVars

\* line 86
StoreClassmap ==
  /\ pc = "classmap"
  /\ stored_classmap' = classmap
  /\ log' = Append(log, Call("op_store_classmap"))
  /\ pc' = "methodmap"
  /\ UNCHANGED <<parseVars, base_id, analyzed_ops, last_seen, ops, opline,
                 classmap, nfiles, txn, stored>>
  /\ UNCHANGED detectorVars

\* GenerateMethodmap called after the `with` block has committed
GenerateMethodmap_AfterCommit ==
  /\ pc = "methodmap"
  /\ txn' = "committed"
  /\ log' = log \o <<Call("commit"),
                     [call |-> "op_generate_methodmap", txn |-> "committed"]>>
  /\ pc' = "finalize"
  /\ UNCHANGED <<parseVars, base_id, analyzed_ops, last_seen, ops, opline,
                 classmap, nfiles, stored, stored_classmap>>
  /\ UNCHANGED detectorVars

\* line 92
GenerateMethodmap ==
  /\ pc = "methodmap"
  /\ log' = Append(log, Call("op_generate_methodmap"))
  /\ pc' = "commit"
  /\ UNCHANGED <<parseVars, base_id, analyzed_ops, last_seen, ops, opline,
                 classmap, nfiles, txn, stored, stored_classmap>>
  /\ UNCHANGED detectorVars

\* the end of the `with` block of line 39: the connection commits
Commit ==
  /\ pc = "commit"
  /\ txn' = "committed"
  /\ log' = Append(log, Call("commit"))
  /\ pc' = "finalize"
  /\ UNCHANGED <<parseVars, base_id, analyzed_ops, last_seen, ops, opline,
                 classmap, nfiles, stored, stored_classmap>>
  /\ UNCHANGED detectorVars

\* line 99
Finalize ==
  /\ pc = "finalize"
  /\ log' = Append(log, Call("op_finalize"))
  /\ pc' = "done"
  /\ UNCHANGED <<parseVars, base_id, analyzed_ops, last_seen, ops, opline,
                 classmap, nfiles, txn, stored, stored_classmap>>
  /\ UNCHANGED detectorVars

Spec ==
  /\ Init
  /\ [][Begin \/ NextFile \/ IndexOp \/ StoreFile \/ CountOps
        \/ StoreClassmap \/ GenerateMethodmap \/ Commit \/ Finalize]_vars

(***************************************************************************)
(* Properties of the parser (specification SpecParse).                     *)
(***************************************************************************)
\* the ops yielded for source line ln
YieldedFor(ln) == {i \in 1..Len(yielded) : yielded[i].ln = ln}

\* C2: P.parsed_flat is total: it finishes without raising for every text,
\* and every non-empty line that is not captured into an annotation/param
\* block yields exactly one head op.
C2_ParserTotal ==
  /\ ppc \notin {"IndexError", "AssertionError"}
  /\ ppc = "done" =>
       \A ln \in 1..Len(lines) :
         lines[ln] # <<>> /\ ln \notin captured
           => Cardinality(YieldedFor(ln)) = 1

\* the op an iteration has just yielded
LastYielded == yielded[Len(yielded)].op

\* the iteration has yielded an op of the given kind with a block: the
\* block is the lines that followed the head, in order, none of them holds
\* the end marker pat, and the deque left is empty or begins with a line
\* that holds it
CapturedUpTo(kind, pat) ==
  /\ Len(yielded') = Len(yielded) + 1
  /\ LastYielded'.t = kind
  /\ LastYielded'.content =
       Sub(Tail(q), 1, Len(LastYielded'.content))
  /\ \A i \in DOMAIN LastYielded'.content :
       ~Contains(LastYielded'.content[i], pat)
  /\ q' = Sub(Tail(q), Len(LastYielded'.content) + 1, Len(Tail(q)))
  /\ q' = <<>> \/ Contains(Head(q'), pat)
  /\ ppc' = "run"

\* C17: an iteration of P.parsed_flat that meets a `.annotation` head, or
\* a `.param` head with exactly one parameter, captures the lines that
\* follow it, in order, up to the first line that contains `.end
\* annotation` (resp. `.end param`), which stays at the front of the deque
\* and is the next line parsed, or all the remaining lines when there is
\* no such line; a `.param` head with more than one parameter captures
\* nothing and is yielded as a plain op.
C17_CaptureBlock ==
  [][(ppc = "run" /\ q # <<>> /\ Head(q) # <<>>
      /\ ~IsRaised(parsed_as_op(Head(q)))) =>
       /\ OpEq(parsed_as_op(Head(q)), "directive", S_annotation) =>
            CapturedUpTo("annotation", S_end_annotation)
       /\ (/\ OpEq(parsed_as_op(Head(q)), "directive", S_param)
           /\ Len(parsed_as_op(Head(q)).p) = 1) =>
            CapturedUpTo("param", S_end_param)
       /\ (/\ OpEq(parsed_as_op(Head(q)), "directive", S_param)
           /\ Len(parsed_as_op(Head(q)).p) > 1) =>
            /\ q' = Tail(q)
            /\ Len(yielded') = Len(yielded) + 1
            /\ LastYielded' = parsed_as_op(Head(q))
            /\ LastYielded'.content = <<>>]_vars

\* an annotation block of one line has been captured and the line with
\* `.end annotation` is the next one to parse
C17_Witness ==
  /\ ppc = "run"
  /\ yielded # <<>>
  /\ LastYielded.t = "annotation"
  /\ Len(LastYielded.content) = 1
  /\ q # <<>>
  /\ Contains(Head(q), S_end_annotation)

(***************************************************************************)
(* Properties of the indexer (specification Spec).                         *)
(***************************************************************************)
\* the batch `ops` has been stored (and the next file not yet started)
BatchStored == pc = "files" /\ ppc = "done"

\* the analysis is past its file loop and has not raised
PastFiles == pc \in {"classmap", "methodmap", "commit", "finalize", "done"}

\* the tokens of the source line the i-th op of the batch comes from
LineTokens(i) == lexed_as_smali(lines[opline[i]])

\* C1: the identifiers of the stored ops are exactly 1..N, without gap or
\* duplicate, in the order of emission (file by file, line by line, a head
\* before its parameters), N being the number of ops given to op_store_ops;
\* after the file loop op_count_ops() = N = base_id - 1.
C1_DenseIds ==
  /\ \A i \in 1..Len(stored) : stored[i] = i
  /\ pc # "raised" => Len(stored) = base_id - 1
  /\ PastFiles => analyzed_ops = Len(stored) /\ analyzed_ops = base_id - 1
  /\ BatchStored =>
       /\ \A i \in 1..Len(ops) :
            /\ ops[i].id = base_id - Len(ops) + i - 1
            /\ ops[i].id = stored[Len(stored) - Len(ops) + i]
       /\ \A i, j \in 1..Len(ops) :
            i < j => /\ ops[i].id < ops[j].id
                     /\ opline[i] <= opline[j]
                     /\ opline[i] = opline[j] => ops[i].idx < ops[j].idx

\* two files have given ops to the store and the analysis is through
C1_Witness ==
  /\ pc = "done"
  /\ nfiles >= 2
  /\ ops # <<>>
  /\ Len(stored) > Len(ops)

\* the head token of source line ln is one the indexer must not keep
DroppedLine(toks) ==
  \/ OpEq(toks[1], "directive", S_line)
  \/ OpEq(toks[1], "directive", S_annotation)
  \/ OpEq(toks[1], "directive", S_param) /\ Len(toks) = 2

\* C3: the batch given to the store holds only ops of retained lines: no
\* op of a `directive line` line, none of the line of an Annotation or
\* Param op, and none of a line captured inside an annotation/param block.
C3_OnlyRetainedLines ==
  BatchStored =>
    \A i \in 1..Len(ops) :
      /\ opline[i] \notin captured
      /\ ~DroppedLine(LineTokens(i))

\* a batch was stored for a file that has a `.line` line or a block head,
\* and a captured `.class` line, and a retained line
C3_Witness ==
  /\ BatchStored
  /\ ops # <<>>
  /\ \E ln \in captured : lines[ln] = <<".", "c", "l", "a", "s", "s", " ", "A">>
  /\ \E ln \in 1..Len(lines) :
       lines[ln] # <<>> /\ lines[ln] # <<" ">> /\ DroppedLine(lexed_as_smali(lines[ln]))

\* the i-th op of the batch is token idx+1 of its line, toks being the
\* tokens of that line; a head is followed by all the parameters of the line
OpOfLine(i, toks) ==
  /\ ops[i].idx \in 0..(Len(toks) - 1)
  /\ ops[i].t = toks[ops[i].idx + 1].t
  /\ ops[i].v = toks[ops[i].idx + 1].v
  /\ ops[i].idx = 0 =>
       /\ i + Len(toks) - 1 <= Len(ops)
       /\ i > 1 => opline[i - 1] < opline[i]
       /\ \A k \in 1..(Len(toks) - 1) :
            /\ ops[i + k].idx = k
            /\ opline[i + k] = opline[i]
            /\ BatchStored => ops[i + k].id = ops[i].id + k
  /\ ops[i].idx > 0 =>
       /\ i > 1
       /\ opline[i - 1] = opline[i]
       /\ ops[i - 1].idx = ops[i].idx - 1
  /\ BatchStored => ops[i].id # None

\* C4: each retained line gives its head op with _idx 0, then its
\* parameters with _idx 1..n in order; once stored these n+1 ops have
\* consecutive, distinct identifiers; an op is a head iff its _idx is 0 and
\* a parameter iff its _idx > 0.
C4_HeadThenParams ==
  BatchStored => \A i \in 1..Len(ops) : OpOfLine(i, LineTokens(i))

\* a stored batch with a line of two parameters after another line
C4_Witness ==
  /\ BatchStored
  /\ \E i \in 2..Len(ops) :
       /\ ops[i].idx = 0
       /\ i + 2 <= Len(ops)
       /\ ops[i + 2].idx = 2
       /\ ops[i + 2].id = ops[i].id + 2

\* the identifiers of the `directive class` ops of a batch
ClassIds(batch) ==
  {batch[i].id : i \in {k \in 1..Len(batch) :
                          batch[k].t = "directive" /\ batch[k].v = S_class}}

\* the class range a batch must give: from its least `directive class`
\* identifier to its last identifier
RangeOf(batch, cs) ==
  IF cs = {} THEN {}
  ELSE {<<CHOOSE c \in cs : \A d \in cs : c <= d, batch[Len(batch)].id>>}

\* C5: storing a file's batch adds the range (id of the first
\* `directive class` op, id of the last op of the batch) iff the batch has
\* such an op, start <= end; a file without one adds nothing, and no other
\* step changes the class-range set.
C5_ClassRange ==
  [][/\ (pc = "parse" /\ pc' = "files")
          => classmap' = classmap \cup RangeOf(ops', ClassIds(ops'))
     /\ ~(pc = "parse" /\ pc' = "files") => classmap' = classmap
     /\ \A r \in classmap' : r[1] <= r[2]]_vars

\* a stored batch whose class directive is neither its first nor its last op
C5_Witness ==
  /\ BatchStored
  /\ ops # <<>>
  /\ \E r \in classmap :
       /\ ops[1].id < r[1]
       /\ r[1] < r[2]
       /\ r[2] = ops[Len(ops)].id

\* the names of the calls of the log
Names(l) == [i \in 1..Len(l) |-> l[i].call]

\* the calls of a complete analysis of k files
Canon(k) ==
  <<"begin exclusive">> \o [i \in 1..k |-> "op_store_ops"] \o
  <<"op_count_ops", "op_store_classmap", "op_generate_methodmap", "commit",
    "op_finalize">>

IsPrefix(a, b) == Len(a) <= Len(b) /\ a = Sub(b, 1, Len(a))

\* the files whose batch has been stored
FilesStored == IF pc \in {"parse", "raised"} THEN nfiles - 1 ELSE nfiles

\* C6: the store is called in the order `begin exclusive`, op_store_ops
\* once per file, (op_count_ops,) op_store_classmap once, after the last
\* file, op_generate_methodmap, then op_finalize; ops and maps are stored
\* inside the one exclusive transaction begun first.
C6_CallOrder ==
  /\ pc = "raised" =>
       /\ Len(log) >= 2
       /\ IsPrefix(Names(Sub(log, 1, Len(log) - 1)), Canon(FilesStored))
       /\ log[Len(log)].call = "rollback"
  /\ pc # "raised" /\ pc # "start" =>
       /\ IsPrefix(Names(log), Canon(FilesStored))
       /\ Len(log) >= 1 + FilesStored
  /\ pc = "done" => Names(log) = Canon(nfiles)
  /\ \A i \in 1..Len(log) :
       /\ log[i].call = "begin exclusive" => log[i].txn = "none"
       /\ log[i].call \in {"op_store_ops", "op_store_classmap",
                           "op_generate_methodmap"}
            => log[i].txn = "exclusive"

\* an analysis of two files is through
C6_Witness ==
  /\ pc = "done"
  /\ nfiles = 2
  /\ txn = "committed"
  /\ stored_classmap # {}

(***************************************************************************)
(* The detectors of trueseeing/signature/security.py.  Each detector is    *)
(* run on its own, against a store and a context fixed when the run        *)
(* starts.  Strings the code converts or tests (solved constants, layout   *)
(* dimensions, paths) are sequences of characters.                         *)
(***************************************************************************)

MaxOpenSites == 2

SeqsUpTo(S, n) == UNION {[1..k -> S] : k \in 0..n}

\* DataFlows.solved_constant_data_in_invocation: the constant as the text
\* of the smali literal, or NoSuchValueError
Solved(v) == [exc |-> "", v |-> v]
NoSuchValueError == [exc |-> "NoSuchValueError", v |-> <<>>]

\* the issue given to _raise_issue; at is history: the item of the
\* detector's loop that raised it
Issue(detector_id, confidence, summary, info1, source, at) ==
  [detector_id |-> detector_id, confidence |-> confidence,
   summary |-> summary, info1 |-> info1, source |-> source, at |-> at]

\* the qualified names the context excludes
ExcludedNames == {"Landroid/support/v4/A;->f()V"}
is_qualname_excluded(qn) == qn \in ExcludedNames
QualNames == {"Lcom/app/Main;->save()V"} \cup ExcludedNames

\* int(s, 16) for a literal of the form 0x<hex digits>
HexDigit(c) ==
  CASE c = "0" -> 0 [] c = "1" -> 1 [] c = "2" -> 2 [] c = "3" -> 3
    [] c = "4" -> 4 [] c = "5" -> 5 [] c = "6" -> 6 [] c = "7" -> 7
    [] c = "8" -> 8 [] c = "9" -> 9 [] c = "a" -> 10 [] c = "b" -> 11
    [] c = "c" -> 12 [] c = "d" -> 13 [] c = "e" -> 14 [] c = "f" -> 15

\* the number the digits l denote in the base, after those read as acc
RECURSIVE Digits(_, _, _)
Digits(l, base, acc) ==
  IF l = <<>> THEN acc
  ELSE Digits(Tail(l), base, base * acc + HexDigit(Head(l)))

IntBase16(l) == Digits(Sub(l, 3, Len(l)), 16, 0)

\* a & b for naturals
RECURSIVE BitAnd(_, _)
BitAnd(a, b) ==
  IF a = 0 \/ b = 0 THEN 0
  ELSE (a % 2) * (b % 2) + 2 * BitAnd(a \div 2, b \div 2)

(***************************************************************************)
(* SecurityFilePermissionDetector.detect                                   *)
(***************************************************************************)

\* openFileOutput call sites; the modes of the model are MODE_PRIVATE,
\* MODE_WORLD_READABLE, MODE_WORLD_WRITEABLE, both, MODE_APPEND, and
\* MODE_APPEND | MODE_WORLD_READABLE
OpenSites ==
  [qn : QualNames,
   arg : {Solved(v) : v \in
            {<<"0", "x", "0">>, <<"0", "x", "1">>, <<"0", "x", "2">>,
             <<"0", "x", "3">>, <<"0", "x", "8", "0", "0", "0">>,
             <<"0", "x", "8", "0", "0", "1">>}} \cup {NoSuchValueError}]

ModeNames == [k \in {1, 2} |->
  IF k = 1 THEN "MODE_WORLD_READABLE" ELSE "MODE_WORLD_WRITEABLE"]

FilePermInit ==
  /\ ppc = "done" /\ q = <<>> /\ yielded = <<>> /\ lines = <<>>
  /\ captured = 0
  /\ IndexIdle
  /\ dpc = "run"
  /\ di = 1
  /\ issues = <<>>
  /\ sites \in SeqsUpTo(OpenSites, MaxOpenSites)
  /\ min_sdk = 0 /\ debuggable = FALSE /\ resources = <<>>
  /\ inner_sites = <<>> /\ trust_methods = {} /\ init_typesets = {}
  /\ verifier_methods = {} /\ pin_nsc = FALSE /\ targets = {}
  /\ layout_path = <<>> /\ elements = <<>> /\ guessed = <<>>
  /\ parents = <<>> /\ classes = {} /\ more = FALSE /\ found = {}
  /\ attestations = {} /\ previous = <<>> /\ written = <<>>

\* lines 28-43 for the call site cl, target_val being the int of line 32
\* when the mode is solved
FilePermApply(cl, target_val) ==
  IF is_qualname_excluded(cl.qn) \/ cl.arg.exc = "NoSuchValueError"
  THEN /\ di' = di + 1
       /\ UNCHANGED <<issues, dpc>>
  ELSE IF BitAnd(target_val, 3) # 0
       THEN IF target_val \in DOMAIN ModeNames
            THEN /\ issues' = Append(issues,
                      Issue("security-file-permission", "certain",
                            "insecure file permission", ModeNames[target_val],
                            cl.qn, di))
                 /\ dpc' = dpc
                 /\ di' = di + 1
            ELSE \* the subscription raises KeyError, which detect() lets
                 \* through
                 /\ dpc' = "KeyError"
                 /\ UNCHANGED <<issues, di>>
       ELSE /\ di' = di + 1
            /\ UNCHANGED <<issues, dpc>>

FilePermSite ==
  /\ dpc = "run"
  /\ di <= Len(sites)
  /\ FilePermApply(sites[di], IntBase16(sites[di].arg.v))
  /\ UNCHANGED <<parseVars, indexVars, min_sdk, debuggable, resources, sites,
                 inner_sites, trust_methods, init_typesets, verifier_methods,
                 pin_nsc, targets, layout_path, elements, guessed>>
  /\ UNCHANGED <<parents, classes, more, found, attestations, previous, written>>

\* the loop of line 27 is exhausted; detect() returns
FilePermReturn ==
  /\ dpc = "run"
  /\ di > Len(sites)
  /\ dpc' = "returned"
  /\ UNCHANGED <<parseVars, indexVars, di, issues, min_sdk, debuggable,
                 resources, sites, inner_sites, trust_methods, init_typesets,
                 verifier_methods, pin_nsc, targets, layout_path, elements,
                 guessed>>
  /\ UNCHANGED <<parents, classes, more, found, attestations, previous, written>>

SpecFilePerm == FilePermInit /\ [][FilePermSite \/ FilePermReturn]_vars

IssuesAt(i) == {k \in DOMAIN issues : issues[k].at = i}

WorldAccessible(cl) ==
  /\ ~is_qualname_excluded(cl.qn)
  /\ cl.arg.exc = ""
  /\ BitAnd(IntBase16(cl.arg.v), 3) # 0

\* C7: detect() completes normally; it raises one issue, whose info1 is
\* MODE_WORLD_READABLE or MODE_WORLD_WRITEABLE, for every non-excluded
\* openFileOutput call site whose mode v is solved with v & 3 # 0, and none
\* for a call site whose mode has v & 3 = 0 or is not solved.
C7_OneIssuePerWorldAccessibleSite ==
  /\ dpc # "KeyError"
  /\ dpc = "returned" =>
       \A i \in DOMAIN sites :
         IF WorldAccessible(sites[i])
         THEN /\ Cardinality(IssuesAt(i)) = 1
              /\ \A k \in IssuesAt(i) : issues[k].info1 \in
                   {"MODE_WORLD_READABLE", "MODE_WORLD_WRITEABLE"}
         ELSE is_qualname_excluded(sites[i].qn) \/ IssuesAt(i) = {}

(***************************************************************************)
(* SecurityInsecureWebViewDetector.detect, lines 312-339: the Javascript   *)
(* interface                                                               *)
(***************************************************************************)

MaxJsSites == 1
MaxAddSites == 1

\* the patterns line 308 adds for the seeds, and the class names the loop
\* of lines 299-306 may add
SeedTargets == {"L.*WebView;", "L.*XWalkView;", "L.*GeckoView;"}
RelatedNames == {"Lcom/app/MyWebView;"}

\* the classes addJavascriptInterface is invoked on in the model, and
\* whether the pattern `<target>->addJavascriptInterface` matches the call
Callees == {"Landroid/webkit/WebView;", "Lcom/app/MyWebView;",
            "Lcom/app/Bridge;"}
TargetMatches(target, callee) ==
  \/ target = "L.*WebView;" /\ callee \in
       {"Landroid/webkit/WebView;", "Lcom/app/MyWebView;"}
  \/ target = callee

\* the class a qualified name lies in
ClassOfQualname(qn) ==
  CASE qn = "Lcom/app/Main;->onCreate()V" -> "Lcom/app/Main;"
    [] qn = "Lcom/app/Other;->init()V" -> "Lcom/app/Other;"
    [] OTHER -> "Landroid/support/v4/A;"
AppQualNames == {"Lcom/app/Main;->onCreate()V", "Lcom/app/Other;->init()V"}

\* setJavaScriptEnabled call sites, whose argument is false (0x0), true
\* (0x1) or not solved; an excluded one is never solved
JsSites ==
  [qn : AppQualNames,
   arg : {Solved(<<"0", "x", "0">>), Solved(<<"0", "x", "1">>),
          NoSuchValueError}]
    \cup [qn : ExcludedNames, arg : {Solved(<<"0", "x", "1">>)}]

\* addJavascriptInterface call sites
AddSites ==
  [qn : AppQualNames, callee : Callees \ {"Lcom/app/Bridge;"},
   arg : {Solved(<<"0", "x", "1">>), Solved(<<>>), NoSuchValueError}]
    \cup [qn : AppQualNames, callee : {"Lcom/app/Bridge;"},
          arg : {NoSuchValueError}]

\* the truth value of a str: it is not empty
Truthy(v) == Len(v) > 0

\* the orders a set may be iterated in
Orders(S) ==
  {o \in [1..Cardinality(S) -> S] : \A i, j \in DOMAIN o : o[i] = o[j] => i = j}

JsInit ==
  /\ ppc = "done" /\ q = <<>> /\ yielded = <<>> /\ lines = <<>>
  /\ captured = 0
  /\ IndexIdle
  /\ dpc = "run"
  /\ di = 1
  /\ issues = <<>>
  /\ min_sdk \in {16, 17}
  /\ sites \in SeqsUpTo(JsSites, MaxJsSites)
  /\ inner_sites \in SeqsUpTo(AddSites, MaxAddSites)
  /\ targets \in {SeedTargets \cup R : R \in SUBSET RelatedNames}
  /\ debuggable = FALSE /\ resources = <<>>
  /\ trust_methods = {} /\ init_typesets = {}
  /\ verifier_methods = {} /\ pin_nsc = FALSE
  /\ layout_path = <<>> /\ elements = <<>> /\ guessed = <<>>
  /\ parents = <<>> /\ classes = {} /\ more = FALSE /\ found = {}
  /\ attestations = {} /\ previous = <<>> /\ written = <<>>

\* lines 321-337 for the call site inner_sites[j]
JsInterfaceOf(j) ==
  IF inner_sites[j].arg.exc = "" /\ ~Truthy(inner_sites[j].arg.v)
  THEN <<>>
  ELSE <<Issue("security-insecure-webview",
               IF inner_sites[j].arg.exc = "NoSuchValueError"
               THEN "tentative" ELSE "firm",
               "insecure Javascript interface", "", inner_sites[j].qn,
               <<di, j>>)>>

\* lines 320-337: the issues of the call sites from the j-th on that
\* invocations_in_class(p, <target>->addJavascriptInterface) yields
RECURSIVE JsInterfacesIn(_, _, _)
JsInterfacesIn(p, target, j) ==
  IF j > Len(inner_sites) THEN <<>>
  ELSE (IF /\ ClassOfQualname(inner_sites[j].qn) = ClassOfQualname(p.qn)
           /\ TargetMatches(target, inner_sites[j].callee)
        THEN JsInterfaceOf(j) ELSE <<>>)
       \o JsInterfacesIn(p, target, j + 1)

\* lines 319-337: the loop over the targets from the k-th on, in the order
RECURSIVE JsInterfacesFor(_, _, _)
JsInterfacesFor(p, order, k) ==
  IF k > Len(order) THEN <<>>
  ELSE JsInterfacesIn(p, order[k], 1) \o JsInterfacesFor(p, order, k + 1)

\* lines 314-339 for the next call site
JsSite ==
  /\ dpc = "run"
  /\ min_sdk <= 16
  /\ di <= Len(sites)
  /\ IF \/ is_qualname_excluded(sites[di].qn)
        \/ sites[di].arg.exc = "NoSuchValueError"
        \/ ~Truthy(sites[di].arg.v)
     THEN issues' = issues
     ELSE \E order \in Orders(targets) :
            issues' = issues \o JsInterfacesFor(sites[di], order, 1)
  /\ di' = di + 1
  /\ UNCHANGED <<parseVars, indexVars, dpc, min_sdk, debuggable, resources,
                 sites, inner_sites, trust_methods, init_typesets,
                 verifier_methods, pin_nsc, targets, layout_path, elements,
                 guessed>>
  /\ UNCHANGED <<parents, classes, more, found, attestations, previous, written>>

\* control leaves lines 312-339
JsDone ==
  /\ dpc = "run"
  /\ min_sdk > 16 \/ di > Len(sites)
  /\ dpc' = "done"
  /\ UNCHANGED <<parseVars, indexVars, di, issues, min_sdk, debuggable,
                 resources, sites, inner_sites, trust_methods, init_typesets,
                 verifier_methods, pin_nsc, targets, layout_path, elements,
                 guessed>>
  /\ UNCHANGED <<parents, classes, more, found, attestations, previous, written>>

SpecJsInterface == JsInit /\ [][JsSite \/ JsDone]_vars

\* a non-excluded setJavaScriptEnabled call whose argument is proven to be
\* the constant true
ProvenTrue(p) ==
  /\ ~is_qualname_excluded(p.qn)
  /\ p.arg.exc = ""
  /\ IntBase16(p.arg.v) # 0

OnTarget(a) == \E target \in targets : TargetMatches(target, a.callee)

\* C10: an addJavascriptInterface call site is reported only when min-SDK
\* is at most 16 and a non-excluded setJavaScriptEnabled call of its class
\* has its argument proven true; a setJavaScriptEnabled call solved to 0x0
\* or not solved triggers no issue; and when one is proven true, every
\* addJavascriptInterface call of its class on a target class is reported.
C10_OnlyWhenProvenTrue ==
  dpc = "done" =>
    /\ \A k \in DOMAIN issues :
         /\ min_sdk <= 16
         /\ ProvenTrue(sites[issues[k].at[1]])
         /\ ClassOfQualname(sites[issues[k].at[1]].qn)
              = ClassOfQualname(inner_sites[issues[k].at[2]].qn)
    /\ \A i \in DOMAIN sites, j \in DOMAIN inner_sites :
         (/\ min_sdk <= 16
          /\ ProvenTrue(sites[i])
          /\ ClassOfQualname(inner_sites[j].qn) = ClassOfQualname(sites[i].qn)
          /\ OnTarget(inner_sites[j]))
         => \E k \in DOMAIN issues : issues[k].at[2] = j

(***************************************************************************)
(* LayoutSizeGuesser and SecurityTamperableWebViewDetector.detect, lines   *)
(* 231-246: the layout elements                                            *)
(***************************************************************************)

MaxElements == 1

\* LayoutSizeGuesser._table
Table == [small |-> <<320, 426>>, normal |-> <<320, 470>>,
          large |-> <<480, 640>>, xlarge |-> <<720, 960>>]

\* the paths of the model, each the list of its components and a component
\* the list of its parts between hyphens: res/layout/main.xml,
\* res/layout-land/main.xml, res/layout-large-land/main.xml and
\* res/layout-small/main.xml
LayoutPaths ==
  { <<<<"res">>, dir, <<"main.xml">>>> :
      dir \in { <<"layout">>, <<"layout", "land">>,
                <<"layout", "large", "land">>, <<"layout", "small">> } }

\* a component contains 'layout' when one of its parts is the word
modifiers_in(path) ==
  LET Parts(c) == {c[x] : x \in DOMAIN c}
  IN Parts(path[CHOOSE i \in DOMAIN path :
       /\ "layout" \in Parts(path[i])
       /\ \A j \in 1..(i - 1) : "layout" \notin Parts(path[j])])

\* line 157 takes whichever bucket the list of the intersection starts
\* with: the set of the results _dps_from_modifiers may give
dps_from_modifiers(mods) ==
  LET Swapped(xy) == IF "land" \in mods THEN <<xy[2], xy[1]>> ELSE xy
  IN IF mods \cap DOMAIN Table = {}
     THEN {Swapped(Table["large"])}
     ELSE {Swapped(Table[b]) : b \in mods \cap DOMAIN Table}

\* not fill_parent, match_parent or wrap_content
is_bound(x) ==
  x \notin {<<"f", "i", "l", "l", "_", "p", "a", "r", "e", "n", "t">>,
            <<"m", "a", "t", "c", "h", "_", "p", "a", "r", "e", "n", "t">>,
            <<"w", "r", "a", "p", "_", "c", "o", "n", "t", "e", "n", "t">>}

\* re.sub(r'di?p$', '', x)
StripDp(x) ==
  IF Len(x) >= 3 /\ Sub(x, Len(x) - 2, Len(x)) = <<"d", "i", "p">>
  THEN Sub(x, 1, Len(x) - 3)
  ELSE IF Len(x) >= 2 /\ Sub(x, Len(x) - 1, Len(x)) = <<"d", "p">>
       THEN Sub(x, 1, Len(x) - 2)
       ELSE x

\* re.sub(r'[^0-9-]', '', x)
DigitsOf(x) == SelectSeq(x, LAMBDA c : c \in Digit \cup {"-"})

\* float(x) for a dimension of the model, none of which has a sign, a
\* point, an exponent or blanks: the number a string of digits denotes,
\* ValueError for anything else
Float(x) ==
  IF x # <<>> /\ \A i \in DOMAIN x : x[i] \in Digit
  THEN [exc |-> "", v |-> Digits(x, 10, 0)]
  ELSE [exc |-> "ValueError", v |-> 0]

\* a float as a fraction of integers
Frac(n, d) == [n |-> n, d |-> d]
Exceeds(a, n, d) == a.n * d > n * a.d

\* lines 178-190
guessed_dp(x, dp) ==
  LET first == Float(StripDp(x))
      second == Float(DigitsOf(x))
  IN IF ~is_bound(x) THEN Frac(dp, 1)
     ELSE IF first.exc = "" THEN Frac(first.v, dp)
     ELSE IF second.exc = "" THEN Frac(second.v, dp)
     ELSE Frac(0, 1)

\* lines 193-197, for the element k of the layout: the element is yielded;
\* a generator is made for its parent, when it has one, and is not
\* iterated, so nothing else is yielded
self_and_containers_of(k) == <<elements[k]>>

\* lines 138-152, es being what _self_and_containers_of yields
RECURSIVE guessed_size(_, _)
guessed_size(es, dps) ==
  IF es = <<>> THEN Frac(1, 1)
  ELSE IF {"layout_width", "layout_height"} \ DOMAIN Head(es) # {}
  THEN Frac(0, 1)
  ELSE IF \/ is_bound(Head(es)["layout_width"])
          \/ is_bound(Head(es)["layout_height"])
       THEN LET w == guessed_dp(Head(es)["layout_width"], dps[1])
                h == guessed_dp(Head(es)["layout_height"], dps[2])
            IN Frac(w.n * h.n, w.d * h.d)
       ELSE guessed_size(Tail(es), dps)

\* the attributes of an element: those it has, with their values, which
\* for a dimension are 480dp, 360dp, match_parent or 100px
Elements ==
  UNION { { e \in [D -> {<<"4", "8", "0", "d", "p">>, <<"3", "6", "0", "d", "p">>, <<"m", "a", "t", "c", "h", "_", "p", "a", "r", "e", "n", "t">>, <<"1", "0", "0", "p", "x">>}
                       \cup {<<"@", "w">>}] :
              \A k \in D : (k = "id") <=> (e[k] = <<"@", "w">>) } :
          D \in SUBSET {"layout_width", "layout_height", "id"} }

\* the layout: its path, its WebView-like elements and, for each of them,
\* what getparent() gives: nothing, or an element with its two dimensions
TamperableInit ==
  /\ ppc = "done" /\ q = <<>> /\ yielded = <<>> /\ lines = <<>>
  /\ captured = 0
  /\ IndexIdle
  /\ dpc = "run"
  /\ di = 1
  /\ issues = <<>>
  /\ layout_path \in LayoutPaths
  /\ elements \in SeqsUpTo(Elements, MaxElements)
  /\ guessed = <<>>
  /\ min_sdk = 0 /\ debuggable = FALSE /\ resources = <<>>
  /\ sites = <<>> /\ inner_sites = <<>> /\ targets = {}
  /\ trust_methods = {} /\ init_typesets = {}
  /\ verifier_methods = {} /\ pin_nsc = FALSE
  /\ parents \in
       [DOMAIN elements ->
          {<<>>,
           <<[layout_width |-> <<"4", "8", "0", "d", "p">>,
              layout_height |-> <<"3", "6", "0", "d", "p">>]>>,
           <<[layout_width |->
                <<"m", "a", "t", "c", "h", "_", "p", "a", "r", "e", "n", "t">>,
              layout_height |->
                <<"m", "a", "t", "c", "h", "_", "p", "a", "r", "e", "n", "t">>]>>}]
  /\ classes = {} /\ more = FALSE /\ found = {}
  /\ attestations = {} /\ previous = <<>> /\ written = <<>>

\* lines 234-246 for the next element
TamperableElement ==
  /\ dpc = "run"
  /\ di <= Len(elements)
  /\ \E dps \in dps_from_modifiers(modifiers_in(layout_path)) :
       LET t == elements[di]
           size == guessed_size(self_and_containers_of(di), dps)
       IN /\ guessed' = Append(guessed, size)
          /\ IF Exceeds(size, 1, 2) /\ "id" \in DOMAIN t
             THEN issues' = Append(issues,
                    Issue("security-tamperable-webview", "tentative",
                          "tamperable webview", <<t["id"], size>>,
                          layout_path, di))
             ELSE \* not large, or t.attrib raises KeyError, which is
                  \* warned of
                  issues' = issues
  /\ di' = di + 1
  /\ UNCHANGED <<parseVars, indexVars, dpc, min_sdk, debuggable, resources,
                 sites, inner_sites, trust_methods, init_typesets,
                 verifier_methods, pin_nsc, targets, layout_path, elements>>
  /\ UNCHANGED <<parents, classes, more, found, attestations, previous, written>>

\* the loop of line 233 is exhausted
TamperableDone ==
  /\ dpc = "run"
  /\ di > Len(elements)
  /\ dpc' = "done"
  /\ UNCHANGED <<parseVars, indexVars, di, issues, min_sdk, debuggable,
                 resources, sites, inner_sites, trust_methods, init_typesets,
                 verifier_methods, pin_nsc, targets, layout_path, elements,
                 guessed>>
  /\ UNCHANGED <<parents, classes, more, found, attestations, previous, written>>

SpecTamperable ==
  TamperableInit /\ [][TamperableElement \/ TamperableDone]_vars

\* the WebView of 480dp by 360dp in res/layout-large-land/main.xml
SeedWebView(e) ==
  /\ {"layout_width", "layout_height"} \subseteq DOMAIN e
  /\ e["layout_width"] = <<"4", "8", "0", "d", "p">>
  /\ e["layout_height"] = <<"3", "6", "0", "d", "p">>
  /\ layout_path[2] = <<"layout", "large", "land">>

\* C9: exactly one tentative 'tamperable webview' issue is raised for every
\* layout element of a WebView-like class whose estimated area exceeds 0.5,
\* and none for an element whose area does not; the WebView of 480dp by
\* 360dp in res/layout-large-land/main.xml has the area 0.5625 and is
\* reported.
C9_OneIssuePerLargeElement ==
  dpc = "done" =>
    \A i \in DOMAIN elements :
      /\ IF Exceeds(guessed[i], 1, 2)
         THEN /\ Cardinality(IssuesAt(i)) = 1
              /\ \A k \in IssuesAt(i) :
                   /\ issues[k].confidence = "tentative"
                   /\ issues[k].summary = "tamperable webview"
         ELSE IssuesAt(i) = {}
      /\ SeedWebView(elements[i]) =>
           /\ guessed[i].n * 10000 = 5625 * guessed[i].d
           /\ IssuesAt(i) # {}

\* the factor of a dimension x on an axis as C18 has it: 1 for a dimension
\* that is not bound, N over the axis for N dp
Factor(x, axis) ==
  IF is_bound(x) THEN Frac(Float(StripDp(x)).v, axis) ELSE Frac(1, 1)

\* the element k has its two dimensions, each of them unbound or N dp with
\* N no more than the axis, and a bound one among them
BoundWithinAxes(k, dps) ==
  /\ {"layout_width", "layout_height"} \subseteq DOMAIN elements[k]
  /\ \/ is_bound(elements[k]["layout_width"])
     \/ is_bound(elements[k]["layout_height"])
  /\ \A a \in {<<"layout_width", 1>>, <<"layout_height", 2>>} :
       is_bound(elements[k][a[1]]) =>
         /\ Float(StripDp(elements[k][a[1]])).exc = ""
         /\ Float(StripDp(elements[k][a[1]])).v <= dps[a[2]]

\* a fraction in lowest terms
RECURSIVE Gcd(_, _)
Gcd(a, b) == IF b = 0 THEN a ELSE Gcd(b, a % b)

Lowest(f) == Frac(f.n \div Gcd(f.n, f.d), f.d \div Gcd(f.n, f.d))

\* C18: for an element with a bound dimension, guessed_size is the product
\* of the factor of its width and the factor of its height, where an
\* unbound dimension has the factor 1 and N dp the factor N over the axis
\* of the bucket; so it is at most 1 when no bound dimension exceeds its
\* axis.
C18_FractionOfScreen ==
  \A k \in DOMAIN guessed :
    \A dps \in dps_from_modifiers(modifiers_in(layout_path)) :
      BoundWithinAxes(k, dps) =>
        /\ Lowest(guessed[k]) =
             Lowest(Frac(Factor(elements[k]["layout_width"], dps[1]).n
                           * Factor(elements[k]["layout_height"], dps[2]).n,
                         Factor(elements[k]["layout_width"], dps[1]).d
                           * Factor(elements[k]["layout_height"], dps[2]).d))
        /\ guessed[k].n <= guessed[k].d

\* the element k has its two dimensions and none is bound
Unbound(e) ==
  /\ {"layout_width", "layout_height"} \subseteq DOMAIN e
  /\ ~is_bound(e["layout_width"])
  /\ ~is_bound(e["layout_height"])

\* C19: for an element whose width and height are both unbound,
\* guessed_size is computed from the dimensions of its immediate parent:
\* it is 1.0 only when there is no parent or the parent is unbound too.
C19_SizedByParent ==
  \A k \in DOMAIN guessed :
    (Unbound(elements[k]) /\ guessed[k].n = guessed[k].d) =>
      (parents[k] = <<>> \/ Unbound(parents[k][1]))

(***************************************************************************)
(* SecurityTlsInterceptionDetector                                         *)
(***************************************************************************)

MaxCertificates == 2

\* an XML resource: the tag of its root, lowered, and the certificates
\* elements below it, in document order, each with its src attribute and
\* whether a pins element lies below it
XmlResources ==
  [tag : {"network-security-config"},
   certificates :
     SeqsUpTo([src : {"user", "system"}, pins : BOOLEAN], MaxCertificates)]
    \cup [tag : {"resources"}, certificates : {<<>>}]

\* line 60
IsNsc(xp) == xp.tag = "network-security-config"

\* the checkServerTrusted methods of the X509TrustManager classes: the name
\* of the class, and whether anything in the method matches verify, throw
TrustMethods ==
  { [cls |-> "Lcom/app/Pinner;", verify |-> TRUE, throw |-> FALSE],
    [cls |-> "Lcom/app/Strict;", verify |-> FALSE, throw |-> TRUE],
    [cls |-> "Lcom/app/Lax;", verify |-> FALSE, throw |-> FALSE] }

\* what solved_typeset_in_invocation gives for arg 1 of an SSLContext.init
Typesets == { {"Lcom/app/Pinner;"}, {"Lcom/app/Strict;", "Lcom/app/Lax;"} }

\* the verify methods of the HostnameVerifier classes, and whether anything
\* in the method matches contains|equals|verify|getPeerCertificates
VerifierMethods ==
  { [cls |-> "Lcom/app/Hosts;", uses |-> TRUE],
    [cls |-> "Lcom/app/AnyHost;", uses |-> FALSE] }

TlsInit ==
  /\ ppc = "done" /\ q = <<>> /\ yielded = <<>> /\ lines = <<>>
  /\ captured = 0
  /\ IndexIdle
  /\ dpc = "manifest"
  /\ di = 1
  /\ issues = <<>>
  /\ min_sdk \in {23, 24}
  /\ debuggable \in BOOLEAN
  /\ resources \in SeqsUpTo(XmlResources, 1)
  /\ trust_methods \in SUBSET TrustMethods
  /\ init_typesets \in SUBSET Typesets
  /\ verifier_methods \in SUBSET VerifierMethods
  /\ pin_nsc = FALSE
  /\ sites = <<>> /\ inner_sites = <<>> /\ targets = {}
  /\ layout_path = <<>> /\ elements = <<>> /\ guessed = <<>>
  /\ parents = <<>> /\ classes = {} /\ more = FALSE /\ found = {}
  /\ attestations = {} /\ previous = <<>> /\ written = <<>>

TlsIssue(summary, info1, at) ==
  Issue("security-tls-interception", "firm", summary, info1, "", at)

\* lines 54-57
TlsManifest ==
  /\ dpc = "manifest"
  /\ pin_nsc' = (min_sdk > 23 /\ ~debuggable)
  /\ dpc' = "resources"
  /\ UNCHANGED <<parseVars, indexVars, di, issues, min_sdk, debuggable,
                 resources, sites, inner_sites, trust_methods, init_typesets,
                 verifier_methods, targets, layout_path, elements, guessed>>
  /\ UNCHANGED <<parents, classes, more, found, attestations, previous, written>>

\* lines 62-81 for the certificates element e, the k-th of the resource,
\* st being the locals and the issues before it
TlsCertificates(e, k, st) ==
  [pin_nsc |-> st.pin_nsc /\ e.src # "user",
   issues |-> IF e.src = "user"
              THEN Append(st.issues, TlsIssue("insecure TLS connection",
                     "user-trusting network security config detected",
                     <<di, k>>))
              ELSE st.issues,
   \* line 74 calls pin.attrib, which is not callable
   exc |-> IF e.pins THEN "TypeError" ELSE ""]

\* lines 61-81: the loop over the certificates elements from the k-th on
RECURSIVE TlsCertificatesFrom(_, _, _)
TlsCertificatesFrom(es, k, st) ==
  IF k > Len(es) \/ st.exc # "" THEN st
  ELSE TlsCertificatesFrom(es, k + 1, TlsCertificates(es[k], k, st))

\* lines 60-81 for the next resource
TlsResource ==
  /\ dpc = "resources"
  /\ di <= Len(resources)
  /\ LET st0 == [pin_nsc |-> pin_nsc, issues |-> issues, exc |-> ""]
         st == IF IsNsc(resources[di])
               THEN TlsCertificatesFrom(resources[di].certificates, 1, st0)
               ELSE st0
     IN /\ pin_nsc' = st.pin_nsc
        /\ issues' = st.issues
        /\ IF st.exc # ""
           THEN dpc' = st.exc /\ di' = di
           ELSE dpc' = dpc /\ di' = di + 1
  /\ UNCHANGED <<parseVars, indexVars, min_sdk, debuggable, resources, sites,
                 inner_sites, trust_methods, init_typesets, verifier_methods,
                 targets, layout_path, elements, guessed>>
  /\ UNCHANGED <<parents, classes, more, found, attestations, previous, written>>

\* lines 107-119 for the pins of lines 94-105; the loop of lines 110-112
\* leaves the pins that are in the typeset of every SSLContext.init
PlainPinsX509(pins) ==
  IF pins # {}
  THEN IF init_typesets = {} THEN {}
       ELSE {c \in pins : \A typeset \in init_typesets : c \in typeset}
  ELSE pins

\* lines 94-119
do_detect_plain_pins_x509 ==
  PlainPinsX509({m.cls : m \in {x \in trust_methods : x.verify \/ x.throw}})

do_detect_plain_pins_hostnameverifier ==
  {m.cls : m \in {x \in verifier_methods : x.uses}}

\* lines 82-91
TlsPins ==
  /\ dpc = "resources"
  /\ di > Len(resources)
  /\ issues' = IF /\ ~pin_nsc
                  /\ do_detect_plain_pins_x509 = {}
                  /\ do_detect_plain_pins_hostnameverifier = {}
               THEN Append(issues, TlsIssue("insecure TLS connection",
                      "no pinning detected", <<0, 0>>))
               ELSE issues
  /\ dpc' = "done"
  /\ UNCHANGED <<parseVars, indexVars, di, min_sdk, debuggable, resources,
                 sites, inner_sites, trust_methods, init_typesets,
                 verifier_methods, pin_nsc, targets, layout_path, elements,
                 guessed>>
  /\ UNCHANGED <<parents, classes, more, found, attestations, previous, written>>

SpecTls == TlsInit /\ [][TlsManifest \/ TlsResource \/ TlsPins]_vars

\* the certificates elements with src="user" of the network security
\* configurations, and the issues raised for them
UserCertificates ==
  {rc \in (DOMAIN resources) \X (1..MaxCertificates) :
     /\ IsNsc(resources[rc[1]])
     /\ rc[2] \in DOMAIN resources[rc[1]].certificates
     /\ resources[rc[1]].certificates[rc[2]].src = "user"}

Raising(info1) ==
  {k \in DOMAIN issues :
     issues[k].info1 = info1 /\ issues[k].confidence = "firm"}

\* no pin in a network security configuration, and none in the code
NoPinning ==
  /\ \A r \in DOMAIN resources :
       IsNsc(resources[r]) =>
         \A c \in DOMAIN resources[r].certificates :
           ~resources[r].certificates[c].pins
  /\ do_detect_plain_pins_x509 = {}
  /\ do_detect_plain_pins_hostnameverifier = {}

\* C8: when detect() has ended, a firm 'user-trusting network security
\* config detected' issue has been raised for every certificates element
\* with src="user" of a network security configuration, and the firm issue
\* 'no pinning detected' has been raised whenever there is no pin in a
\* network security configuration and both code-level pin sets are empty,
\* in particular for a debuggable application of min-SDK 24 without one.
C8_UserTrustAndNoPinning ==
  dpc \in {"done", "TypeError"} =>
    /\ \A rc \in UserCertificates :
         \E k \in Raising("user-trusting network security config detected") :
           issues[k].at = rc
    /\ NoPinning => Raising("no pinning detected") # {}
    /\ (debuggable /\ min_sdk = 24 /\ resources = <<>> /\ NoPinning)
         => Raising("no pinning detected") # {}

(***************************************************************************)
(* SecurityInsecureWebViewDetector.detect, the mixed content mode          *)
(***************************************************************************)

MaxModeSites == 1
MaxLoadSites == 1

\* the setMixedContentMode call sites, whose argument is
\* MIXED_CONTENT_ALWAYS_ALLOW (0x0), MIXED_CONTENT_NEVER_ALLOW (0x1),
\* MIXED_CONTENT_COMPATIBILITY_MODE (0x2) or not solved, and the loadUrl
\* call sites
MixedContentInit ==
  /\ ppc = "done" /\ q = <<>> /\ yielded = <<>> /\ lines = <<>>
  /\ captured = 0
  /\ IndexIdle
  /\ dpc = "run"
  /\ di = 1
  /\ issues = <<>>
  /\ min_sdk \in {20, 21}
  /\ sites \in
       SeqsUpTo([qn : QualNames,
                 arg : {Solved(<<"0", "x", "0">>), Solved(<<"0", "x", "1">>),
                        Solved(<<"0", "x", "2">>), NoSuchValueError}],
                MaxModeSites)
  /\ inner_sites \in
       SeqsUpTo([qn : QualNames,
                 callee : {"Landroid/webkit/WebView;", "Lcom/app/Bridge;"}],
                MaxLoadSites)
  /\ targets \in {SeedTargets \cup R : R \in SUBSET RelatedNames}
  /\ debuggable = FALSE /\ resources = <<>>
  /\ trust_methods = {} /\ init_typesets = {}
  /\ verifier_methods = {} /\ pin_nsc = FALSE
  /\ layout_path = <<>> /\ elements = <<>> /\ guessed = <<>>
  /\ parents = <<>> /\ classes = {} /\ more = FALSE /\ found = {}
  /\ attestations = {} /\ previous = <<>> /\ written = <<>>

\* lines 342-377: the setMixedContentMode call sites when min-SDK is 21 or
\* more, and otherwise the loadUrl call sites of every target, the targets
\* in the order the set iterates in
MixedContent ==
  /\ dpc = "run"
  /\ IF min_sdk >= 21
     THEN issues' = JoinLines(
            [j \in DOMAIN sites |->
               IF \/ is_qualname_excluded(sites[j].qn)
                  \/ sites[j].arg.exc = "NoSuchValueError"
                  \/ IntBase16(sites[j].arg.v) \notin {0, 2}
               THEN <<>>
               ELSE IF IntBase16(sites[j].arg.v) = 0
               THEN <<Issue("security-insecure-webview", "firm",
                            "insecure mixed content mode",
                            "MIXED_CONTENT_ALWAYS_ALLOW", sites[j].qn,
                            <<1, j>>)>>
               ELSE <<Issue("security-insecure-webview", "firm",
                            "potentially insecure mixed content mode",
                            "MIXED_CONTENT_COMPATIBILITY_MODE", sites[j].qn,
                            <<1, j>>)>>], <<>>)
     ELSE \E order \in Orders(targets) :
            issues' = JoinLines(
              [k \in DOMAIN order |-> JoinLines(
                 [j \in DOMAIN inner_sites |->
                    IF TargetMatches(order[k], inner_sites[j].callee)
                    THEN <<Issue("security-insecure-webview", "firm",
                                 "insecure mixed content mode",
                                 "mixed mode always enabled in API < 21",
                                 inner_sites[j].qn, <<k, j>>)>>
                    ELSE <<>>], <<>>)], <<>>)
  /\ dpc' = "done"
  /\ UNCHANGED <<parseVars, indexVars, di, min_sdk, debuggable, resources,
                 sites, inner_sites, trust_methods, init_typesets,
                 verifier_methods, pin_nsc, targets, layout_path, elements,
                 guessed, parents, classes, more, found, attestations,
                 previous, written>>

SpecMixedContent == MixedContentInit /\ [][MixedContent]_vars

\* C20: no issue is raised whose source is the qualified name of a call
\* site the context excludes.
C20_NoExcludedSource ==
  \A k \in DOMAIN issues : ~is_qualname_excluded(issues[k].source)

(***************************************************************************)
(* SecurityInsecureRootedDetector.detect                                   *)
(***************************************************************************)

MaxAttestSites == 1
MaxConstSites == 2

\* the position the segments /[{}$%a-zA-Z0-9_-]+ that start at position i
\* of l end at, i - 1 when there is none; ch is the character class
RECURSIVE RootPathEnd(_, _, _)
RootPathEnd(l, i, ch) ==
  LET r == IF i <= Len(l) /\ l[i] = "/" THEN Run(l, i + 1, ch) ELSE 0
  IN IF r = 0 THEN i - 1 ELSE RootPathEnd(l, i + 1 + r, ch)

\* [m.group(0) for m in re.finditer(self._pat, v)], as a set: the pattern
\* is anchored at the start of v and asks for two segments or more
RootPaths(v) ==
  LET ch == Lower \cup Digit \cup {"{", "}", "$", "%", "_", "-"} \cup
            {"A", "B", "C", "D", "E", "F", "G", "H", "I", "J", "K", "L", "M",
             "N", "O", "P", "Q", "R", "S", "T", "U", "V", "W", "X", "Y", "Z"}
      e1 == IF v # <<>> /\ v[1] = "/" THEN Run(v, 2, ch) + 1 ELSE 1
      e == RootPathEnd(v, e1 + 1, ch)
  IN IF e1 = 1 \/ e = e1 THEN {} ELSE {Sub(v, 1, e)}

\* the store and the context: the attest call sites, each with whether its
\* class has a ctsProfileMatch|basicIntegrity constant, the const-string
\* sites of the pattern, and the string resources; the strings are
\* /system/xbin/su, /sbin/su.bak, /data/local and plain
RootedInit ==
  /\ ppc = "done" /\ q = <<>> /\ yielded = <<>> /\ lines = <<>>
  /\ captured = 0
  /\ IndexIdle
  /\ dpc = "detect"
  /\ di = 1
  /\ issues = <<>>
  /\ previous = <<>>
  /\ sites \in SeqsUpTo([qn : QualNames, verdict : BOOLEAN], MaxAttestSites)
  /\ inner_sites \in
       SeqsUpTo([qn : QualNames,
                 v : {<<"/", "s", "y", "s", "t", "e", "m", "/", "x", "b", "i", "n", "/", "s", "u">>,
                      <<"/", "s", "b", "i", "n", "/", "s", "u", ".", "b", "a", "k">>,
                      <<"/", "d", "a", "t", "a", "/", "l", "o", "c", "a", "l">>}],
                MaxConstSites)
  /\ resources \in
       SeqsUpTo([name : {"probe"},
                 val : {<<"/", "s", "y", "s", "t", "e", "m", "/", "x", "b", "i", "n", "/", "s", "u">>,
                        <<"p", "l", "a", "i", "n">>}], 1)
  /\ found = {} /\ attestations = {}
  /\ min_sdk = 0 /\ debuggable = FALSE /\ targets = {}
  /\ trust_methods = {} /\ init_typesets = {}
  /\ verifier_methods = {} /\ pin_nsc = FALSE
  /\ layout_path = <<>> /\ elements = <<>> /\ guessed = <<>>
  /\ parents = <<>> /\ classes = {} /\ more = FALSE /\ written = <<>>

\* lines 656-659
PathBased(paths) ==
  {s \in paths :
     \E w \in {<<"S", "u", "p">>, <<"s", "u">>, <<"x", "b", "i", "n">>,
               <<"s", "b", "i", "n">>, <<"r", "o", "o", "t">>} : Contains(s, w)}

\* lines 639-663 with the path probes raised whether or not there are
\* attestations
RootedDetect_PathsAlone ==
  /\ dpc = "detect"
  /\ attestations' =
       {sites[i].qn : i \in {k \in DOMAIN sites :
          ~is_qualname_excluded(sites[k].qn) /\ sites[k].verdict}}
  /\ found' =
       UNION ({RootPaths(inner_sites[i].v) : i \in {k \in DOMAIN inner_sites :
                 ~is_qualname_excluded(inner_sites[k].qn)}}
              \cup {RootPaths(resources[i].val) : i \in DOMAIN resources})
  /\ IF PathBased(found') # {}
     THEN \E o \in Orders(PathBased(found')) :
            issues' = <<Issue("security-insecure-rooted", "firm",
              "manual root detections without remote attestations",
              JoinLines(o, <<",">>), "", 0)>>
     ELSE IF attestations' # {}
     THEN \E o \in Orders(attestations') :
            issues' = <<Issue("security-insecure-rooted", "firm",
              "remote attestations without manual root detections", o, "",
              0)>>
     ELSE issues' = <<>>
  /\ dpc' = "done"
  /\ UNCHANGED <<parseVars, indexVars, di, min_sdk, debuggable,
                 resources, sites, inner_sites, trust_methods, init_typesets,
                 verifier_methods, pin_nsc, targets, layout_path, elements,
                 guessed, parents, classes, more, previous, written>>

\* SecurityInsecureRootedDetector.detect: the attestations of lines
\* 639-646, the paths of lines 648-654, and the issue of lines 656-663;
\* ','.join takes the set in the order it iterates in
RootedDetect ==
  /\ dpc = "detect"
  /\ attestations' =
       {sites[i].qn : i \in {k \in DOMAIN sites :
          ~is_qualname_excluded(sites[k].qn) /\ sites[k].verdict}}
  /\ found' =
       UNION ({RootPaths(inner_sites[i].v) : i \in {k \in DOMAIN inner_sites :
                 ~is_qualname_excluded(inner_sites[k].qn)}}
              \cup {RootPaths(resources[i].val) : i \in DOMAIN resources})
  /\ IF PathBased(found') # {} /\ attestations' = {}
     THEN \E o \in Orders(PathBased(found')) :
            issues' = <<Issue("security-insecure-rooted", "firm",
              "manual root detections without remote attestations",
              JoinLines(o, <<",">>), "", 0)>>
     ELSE IF attestations' # {} /\ PathBased(found') = {}
     THEN \E o \in Orders(attestations') :
            issues' = <<Issue("security-insecure-rooted", "firm",
              "remote attestations without manual root detections", o, "",
              0)>>
     ELSE issues' = <<>>
  /\ dpc' = "done"
  /\ UNCHANGED <<parseVars, indexVars, di, min_sdk, debuggable,
                 resources, sites, inner_sites, trust_methods, init_typesets,
                 verifier_methods, pin_nsc, targets, layout_path, elements,
                 guessed, parents, classes, more, previous, written>>

\* detect() is run once more on the same store and context
RootedAgain ==
  /\ dpc = "done"
  /\ di = 1
  /\ di' = 2
  /\ previous' = issues
  /\ issues' = <<>>
  /\ found' = {}
  /\ attestations' = {}
  /\ dpc' = "detect"
  /\ UNCHANGED <<parseVars, indexVars, min_sdk, debuggable, resources, sites,
                 inner_sites, trust_methods, init_typesets, verifier_methods,
                 pin_nsc, targets, layout_path, elements, guessed, parents,
                 classes, more, written>>

SpecRooted ==
  RootedInit /\ [][RootedDetect \/ RootedAgain]_vars

\* C11: when detect() has ended, exactly one issue has been raised if
\* exactly one of the two sets (path-based root probes, attestations) is
\* not empty, and none if both or neither are; the summary of the issue
\* names the set that is missing.
C11_OnlyOneOfTwo ==
  dpc = "done" =>
    /\ ((PathBased(found) # {}) # (attestations # {})) => Len(issues) = 1
    /\ ((PathBased(found) # {}) = (attestations # {})) => issues = <<>>
    /\ \A k \in DOMAIN issues :
         issues[k].summary =
           IF attestations = {}
           THEN "manual root detections without remote attestations"
           ELSE "remote attestations without manual root detections"

\* a run with path probes and attestations both, and none of them excluded
C11_Witness ==
  /\ dpc = "done"
  /\ PathBased(found) # {}
  /\ attestations # {}
  /\ found # PathBased(found)
  /\ issues = <<>>
  /\ \E k \in DOMAIN inner_sites : is_qualname_excluded(inner_sites[k].qn)

\* the issues as a set
IssueSet(l) == {l[k] : k \in DOMAIN l}

\* C15: two runs of a detector on the same store and context raise the
\* same set of issues, every field equal; no field depends on the order an
\* unordered set is iterated in.
C15_SameIssuesTwice ==
  (dpc = "done" /\ di = 2) => IssueSet(previous) = IssueSet(issues)

(***************************************************************************)
(* SecuritySharedPreferencesDetector.detect                                *)
(***************************************************************************)

MaxPrefSites == 2

\* the invoke-interface ops of the store in op id order, each with the text
\* of its callee, its qualified name and what the solver gives for its
\* argument 0; the callees are SharedPreferences.getString and .getLong and
\* SharedPreferences$Editor.putInt and .remove
SharedPrefsInit ==
  /\ ppc = "done" /\ q = <<>> /\ yielded = <<>> /\ lines = <<>>
  /\ captured = 0
  /\ IndexIdle
  /\ dpc = "detect"
  /\ di = 1
  /\ issues = <<>>
  /\ sites \in
       SeqsUpTo([callee : {<<"L", "a", "n", "d", "r", "o", "i", "d", "/", "c",
                             "o", "n", "t", "e", "n", "t", "/", "S", "h", "a",
                             "r", "e", "d", "P", "r", "e", "f", "e", "r", "e",
                             "n", "c", "e", "s", ";", "-", ">", "g", "e", "t",
                             "S", "t", "r", "i", "n", "g", "(", "L", "j", "a",
                             "v", "a", "/", "l", "a", "n", "g", "/", "S", "t",
                             "r", "i", "n", "g", ";", "L", "j", "a", "v", "a",
                             "/", "l", "a", "n", "g", "/", "S", "t", "r", "i",
                             "n", "g", ";", ")", "L", "j", "a", "v", "a", "/",
                             "l", "a", "n", "g", "/", "S", "t", "r", "i", "n",
                             "g", ";">>,
                           <<"L", "a", "n", "d", "r", "o", "i", "d", "/", "c",
                             "o", "n", "t", "e", "n", "t", "/", "S", "h", "a",
                             "r", "e", "d", "P", "r", "e", "f", "e", "r", "e",
                             "n", "c", "e", "s", ";", "-", ">", "g", "e", "t",
                             "L", "o", "n", "g", "(", "L", "j", "a", "v", "a",
                             "/", "l", "a", "n", "g", "/", "S", "t", "r", "i",
                             "n", "g", ";", "J", ")", "J">>,
                           <<"L", "a", "n", "d", "r", "o", "i", "d", "/", "c",
                             "o", "n", "t", "e", "n", "t", "/", "S", "h", "a",
                             "r", "e", "d", "P", "r", "e", "f", "e", "r", "e",
                             "n", "c", "e", "s", "$", "E", "d", "i", "t", "o",
                             "r", ";", "-", ">", "p", "u", "t", "I", "n", "t",
                             "(", "L", "j", "a", "v", "a", "/", "l", "a", "n",
                             "g", "/", "S", "t", "r", "i", "n", "g", ";", "I",
                             ")", "L", "a", "n", "d", "r", "o", "i", "d", "/",
                             "c", "o", "n", "t", "e", "n", "t", "/", "S", "h",
                             "a", "r", "e", "d", "P", "r", "e", "f", "e", "r",
                             "e", "n", "c", "e", "s", "$", "E", "d", "i", "t",
                             "o", "r", ";">>,
                           <<"L", "a", "n", "d", "r", "o", "i", "d", "/", "c",
                             "o", "n", "t", "e", "n", "t", "/", "S", "h", "a",
                             "r", "e", "d", "P", "r", "e", "f", "e", "r", "e",
                             "n", "c", "e", "s", "$", "E", "d", "i", "t", "o",
                             "r", ";", "-", ">", "r", "e", "m", "o", "v", "e",
                             "(", "L", "j", "a", "v", "a", "/", "l", "a", "n",
                             "g", "/", "S", "t", "r", "i", "n", "g", ";", ")",
                             "L", "a", "n", "d", "r", "o", "i", "d", "/", "c",
                             "o", "n", "t", "e", "n", "t", "/", "S", "h", "a",
                             "r", "e", "d", "P", "r", "e", "f", "e", "r", "e",
                             "n", "c", "e", "s", "$", "E", "d", "i", "t", "o",
                             "r", ";">>},
                 qn : QualNames,
                 arg : {Solved(<<"k">>), NoSuchValueError}], MaxPrefSites)
  /\ inner_sites = <<>> /\ resources = <<>>
  /\ found = {} /\ attestations = {} /\ previous = <<>>
  /\ min_sdk = 0 /\ debuggable = FALSE /\ targets = {}
  /\ trust_methods = {} /\ init_typesets = {}
  /\ verifier_methods = {} /\ pin_nsc = FALSE
  /\ layout_path = <<>> /\ elements = <<>> /\ guessed = <<>>
  /\ parents = <<>> /\ classes = {} /\ more = FALSE /\ written = <<>>

\* one `for cl in q.invocations(...)` loop of detect(), from the site i on:
\* the pattern is class, one of methods, and the text (Ljava/lang/String;
\* and the query gives the matching ops in op id order
RECURSIVE SharedPrefsLoop(_, _, _, _)
SharedPrefsLoop(i, class, methods, info2) ==
  IF i > Len(sites) THEN <<>>
  ELSE (IF /\ \E m \in methods :
                Contains(sites[i].callee,
                         class \o m \o <<"(", "L", "j", "a", "v", "a", "/",
                                         "l", "a", "n", "g", "/", "S", "t",
                                         "r", "i", "n", "g", ";">>)
           /\ ~is_qualname_excluded(sites[i].qn)
        THEN <<Issue("security-sharedpref", "certain",
                     "detected SharedPreference access",
                     IF sites[i].arg.exc = "NoSuchValueError"
                     THEN <<"(", "u", "n", "k", "n", "o", "w", "n", " ", "n",
                            "a", "m", "e", ")">>
                     ELSE sites[i].arg.v,
                     sites[i].qn, i) @@ [info2 |-> info2]>>
        ELSE <<>>) \o SharedPrefsLoop(i + 1, class, methods, info2)

\* lines 671-733: the get loop, then the put loop, then the remove loop
SharedPrefsDetect ==
  /\ dpc = "detect"
  /\ LET typed == {<<"B", "o", "o", "l", "e", "a", "n">>,
                   <<"F", "l", "o", "a", "t">>, <<"I", "n", "t">>,
                   <<"S", "t", "r", "i", "n", "g">>,
                   <<"S", "t", "r", "i", "n", "g", "S", "e", "t">>}
     IN issues' =
          SharedPrefsLoop(1, <<"L", "a", "n", "d", "r", "o", "i", "d", "/",
                               "c", "o", "n", "t", "e", "n", "t", "/", "S",
                               "h", "a", "r", "e", "d", "P", "r", "e", "f",
                               "e", "r", "e", "n", "c", "e", "s", ";", "-",
                               ">">>,
            {<<"g", "e", "t">> \o t : t \in typed}, "read")
          \o SharedPrefsLoop(1, <<"L", "a", "n", "d", "r", "o", "i", "d", "/",
                                  "c", "o", "n", "t", "e", "n", "t", "/", "S",
                                  "h", "a", "r", "e", "d", "P", "r", "e", "f",
                                  "e", "r", "e", "n", "c", "e", "s", "$", "E",
                                  "d", "i", "t", "o", "r", ";", "-", ">">>,
            {<<"p", "u", "t">> \o t : t \in typed}, "write")
          \o SharedPrefsLoop(1, <<"L", "a", "n", "d", "r", "o", "i", "d", "/",
                                  "c", "o", "n", "t", "e", "n", "t", "/", "S",
                                  "h", "a", "r", "e", "d", "P", "r", "e", "f",
                                  "e", "r", "e", "n", "c", "e", "s", "/", "E",
                                  "d", "i", "t", "o", "r", ";", "-", ">">>,
            {<<"r", "e", "m", "o", "v", "e">>}, "delete")
  /\ dpc' = "done"
  /\ UNCHANGED <<parseVars, indexVars, di, min_sdk, debuggable,
                 resources, sites, inner_sites, trust_methods, init_typesets,
                 verifier_methods, pin_nsc, targets, layout_path, elements,
                 guessed, parents, classes, more, found, attestations,
                 previous, written>>

SpecSharedPrefs == SharedPrefsInit /\ [][SharedPrefsDetect]_vars

\* what the site i is a call of: "read" for SharedPreferences.get*,
\* "write" for SharedPreferences$Editor.put*, "delete" for
\* SharedPreferences$Editor.remove(String), "" for anything else
PrefKind(i) ==
  IF IsPrefix(<<"L", "a", "n", "d", "r", "o", "i", "d", "/", "c", "o", "n",
                "t", "e", "n", "t", "/", "S", "h", "a", "r", "e", "d", "P",
                "r", "e", "f", "e", "r", "e", "n", "c", "e", "s", ";", "-",
                ">">>
              \o <<"g", "e", "t">>, sites[i].callee) THEN "read"
  ELSE IF IsPrefix(<<"L", "a", "n", "d", "r", "o", "i", "d", "/", "c", "o",
                     "n", "t", "e", "n", "t", "/", "S", "h", "a", "r", "e",
                     "d", "P", "r", "e", "f", "e", "r", "e", "n", "c", "e",
                     "s", "$", "E", "d", "i", "t", "o", "r", ";", "-", ">">>
                   \o <<"p", "u", "t">>, sites[i].callee) THEN "write"
  ELSE IF IsPrefix(<<"L", "a", "n", "d", "r", "o", "i", "d", "/", "c", "o",
                     "n", "t", "e", "n", "t", "/", "S", "h", "a", "r", "e",
                     "d", "P", "r", "e", "f", "e", "r", "e", "n", "c", "e",
                     "s", "$", "E", "d", "i", "t", "o", "r", ";", "-", ">">>
                   \o <<"r", "e", "m", "o", "v", "e", "(">>, sites[i].callee)
       THEN "delete"
  ELSE ""

\* C12: when detect() has ended, every non-excluded call site of
\* SharedPreferences.get*(String,...), SharedPreferences$Editor.put*(String,
\* ...) and SharedPreferences$Editor.remove(String) has exactly one issue,
\* whose info2 is read, write or delete respectively, whose info1 is the
\* solved key or (unknown name), and whose source is the qualified name of
\* the site.
C12_OneIssuePerAccess ==
  dpc = "done" =>
    \A i \in DOMAIN sites :
      (PrefKind(i) # "" /\ ~is_qualname_excluded(sites[i].qn)) =>
        /\ Cardinality(IssuesAt(i)) = 1
        /\ \A k \in IssuesAt(i) :
             /\ issues[k].info2 = PrefKind(i)
             /\ issues[k].source = sites[i].qn
             /\ issues[k].info1 =
                  IF sites[i].arg.exc = "NoSuchValueError"
                  THEN <<"(", "u", "n", "k", "n", "o", "w", "n", " ", "n",
                         "a", "m", "e", ")">>
                  ELSE sites[i].arg.v

\* C14: the issues of one run of detect() are raised in the order of the
\* op ids of their call sites.
C14_IssuesInOpIdOrder ==
  dpc = "done" =>
    \A j, k \in DOMAIN issues : j < k => issues[j].at <= issues[k].at

(***************************************************************************)
(* The related-class loops of SecurityTamperableWebViewDetector.detect and *)
(* SecurityInsecureWebViewDetector.detect                                  *)
(***************************************************************************)

MaxClasses == 2

\* Query.related_classes(regex_union): the classes of the store whose
\* superclass or interface list matches one of the alternatives
related_classes(alternatives) ==
  {i \in DOMAIN classes :
     \E t \in alternatives : t # <<"None">> /\ Contains(classes[i].super, t)}

\* the classes of the store, each with what class_name_of gives for it (a
\* descriptor, or None, written <<"None">>) and its superclass and
\* interface list; La; and Lb; may extend each other
ClosureInit ==
  /\ ppc = "done" /\ q = <<>> /\ yielded = <<>> /\ lines = <<>>
  /\ captured = 0
  /\ IndexIdle
  /\ classes \in
       SeqsUpTo([name : {<<"L", "a", ";">>, <<"L", "b", ";">>, <<"None">>},
                 super : {<<"L", "a", ";">>, <<"L", "b", ";">>,
                          <<"L", "a", "n", "d", "r", "o", "i", "d", "/", "w",
                            "e", "b", "k", "i", "t", "/", "W", "e", "b", "V",
                            "i", "e", "w", ";">>,
                          <<"L", "a", "n", "d", "r", "o", "i", "d", "/", "w",
                            "e", "b", "k", "i", "t", "/", "W", "e", "b", "V",
                            "i", "e", "w", ";", " ", "L", "b", ";">>}],
                MaxClasses)
  /\ \/ /\ dpc = "tamperable"
        /\ targets = {<<"W", "e", "b", "V", "i", "e", "w">>,
                      <<"X", "W", "a", "l", "k", "V", "i", "e", "w">>,
                      <<"G", "e", "c", "k", "o", "V", "i", "e", "w">>}
     \/ /\ dpc = "insecure"
        /\ targets = {}
  /\ more = TRUE
  /\ di = 0
  /\ issues = <<>>
  /\ sites = <<>> /\ inner_sites = <<>> /\ resources = <<>>
  /\ found = {} /\ attestations = {} /\ previous = <<>>
  /\ min_sdk = 0 /\ debuggable = FALSE
  /\ trust_methods = {} /\ init_typesets = {}
  /\ verifier_methods = {} /\ pin_nsc = FALSE
  /\ layout_path = <<>> /\ elements = <<>> /\ guessed = <<>>
  /\ parents = <<>> /\ written = <<>>

\* lines 224-229 with `more = True` for every class of the query
TamperableClosure_AlwaysMore ==
  /\ dpc = "tamperable"
  /\ more
  /\ targets' = targets \cup
       {classes[i].name : i \in {k \in related_classes(targets) :
                                   classes[k].name # <<"None">>}}
  /\ more' = (related_classes(targets) # {})
  /\ di' = IF di < MaxClasses + 1 THEN di + 1 ELSE di
  /\ UNCHANGED <<parseVars, indexVars, dpc, issues, min_sdk, debuggable,
                 resources, sites, inner_sites, trust_methods, init_typesets,
                 verifier_methods, pin_nsc, layout_path, elements, guessed,
                 parents, classes, found, attestations, previous, written>>

\* lines 223-229: one pass of `while more:`, the for loop over the classes
\* related to the targets the pass began with
TamperableClosure ==
  /\ dpc = "tamperable"
  /\ more
  /\ targets' = targets \cup
       {classes[i].name : i \in {k \in related_classes(targets) :
                                   classes[k].name # <<"None">>}}
  /\ more' = (targets' # targets)
  /\ di' = IF di < MaxClasses + 1 THEN di + 1 ELSE di
  /\ UNCHANGED <<parseVars, indexVars, dpc, issues, min_sdk, debuggable,
                 resources, sites, inner_sites, trust_methods, init_typesets,
                 verifier_methods, pin_nsc, layout_path, elements, guessed,
                 parents, classes, found, attestations, previous, written>>

\* lines 302-308: one pass of `while more:`; the query is over the seeds
\* and a name of None is added like any other
InsecureClosure ==
  /\ dpc = "insecure"
  /\ more
  /\ targets' = targets \cup
       {classes[i].name :
          i \in related_classes({<<"W", "e", "b", "V", "i", "e", "w">>,
                                 <<"X", "W", "a", "l", "k", "V", "i", "e", "w">>,
                                 <<"G", "e", "c", "k", "o", "V", "i", "e", "w">>})}
  /\ more' = (targets' # targets)
  /\ di' = IF di < MaxClasses + 1 THEN di + 1 ELSE di
  /\ UNCHANGED <<parseVars, indexVars, dpc, issues, min_sdk, debuggable,
                 resources, sites, inner_sites, trust_methods, init_typesets,
                 verifier_methods, pin_nsc, layout_path, elements, guessed,
                 parents, classes, found, attestations, previous, written>>

\* the end of `while more:` (line 223; line 302 with lines 309-310, which
\* add L.*seed; for every seed)
ClosureExit ==
  /\ dpc \in {"tamperable", "insecure"}
  /\ ~more
  /\ targets' =
       IF dpc = "tamperable" THEN targets
       ELSE targets \cup
              {<<"L", ".", "*", "W", "e", "b", "V", "i", "e", "w", ";">>,
               <<"L", ".", "*", "X", "W", "a", "l", "k", "V", "i", "e", "w",
                 ";">>,
               <<"L", ".", "*", "G", "e", "c", "k", "o", "V", "i", "e", "w",
                 ";">>}
  /\ dpc' = IF dpc = "tamperable" THEN "tamperable closed"
            ELSE "insecure closed"
  /\ UNCHANGED <<parseVars, indexVars, di, issues, min_sdk, debuggable,
                 resources, sites, inner_sites, trust_methods, init_typesets,
                 verifier_methods, pin_nsc, layout_path, elements, guessed,
                 parents, classes, more, found, attestations, previous,
                 written>>

\* the detector runs on: a pass or the exit is taken whenever it can be
SpecClosure ==
  /\ ClosureInit
  /\ [][TamperableClosure \/ InsecureClosure \/ ClosureExit]_vars
  /\ WF_vars(TamperableClosure \/ InsecureClosure \/ ClosureExit)

\* C13: both loops end, for every store; the target set only grows, a pass
\* asks for another one only when it added a name, the set never has more
\* than the number of classes plus the three seeds, and when the Tamperable
\* loop has ended every named class related to the targets is a target.
C13_ClosureTerminates ==
  /\ <>(dpc \in {"tamperable closed", "insecure closed"})
  /\ [][/\ targets \subseteq targets'
        /\ dpc' = dpc => (more' <=> targets' # targets)]_vars
  /\ [](/\ Cardinality(targets) <= Len(classes) + 3
        /\ di <= Len(classes) + 1
        /\ dpc = "tamperable closed" =>
             \A i \in related_classes(targets) :
               classes[i].name # <<"None">> => classes[i].name \in targets)

\* the Tamperable loop has ended on a store whose two classes extend each
\* other, after a pass that added one of them, a pass that added the other
\* and a pass that added nothing
C13_Witness ==
  /\ dpc = "tamperable closed"
  /\ di = 3
  /\ \E i, j \in DOMAIN classes :
       /\ i # j
       /\ Contains(classes[i].super, classes[j].name)
       /\ Contains(classes[j].super, classes[i].name)
       /\ {classes[i].name, classes[j].name} \subseteq targets

(***************************************************************************)
(* ConsoleNoter.formatted and CIReportGenerator.generate                   *)
(***************************************************************************)

MaxIssues == 2

\* trueseeing.core.tools.noneif: the default for None, the value otherwise;
\* an optional value is <<>> for None and <<v>> for v
noneif(x, default) == IF x = <<>> THEN default ELSE x[1]

\* str.format of a non-negative int: its decimal digits
RECURSIVE Decimal(_)
Decimal(n) ==
  (IF n < 10 THEN <<>> ELSE Decimal(n \div 10))
  \o <<<<"0", "1", "2", "3", "4", "5", "6", "7", "8", "9">>[(n % 10) + 1]>>

\* lines 29-37 with the source formatted as it is
formatted_NoDefault(issue) ==
  (IF issue.source = <<>> THEN <<"N", "o", "n", "e">> ELSE issue.source[1])
  \o <<":">> \o Decimal(noneif(issue.row, 0))
  \o <<":">> \o Decimal(noneif(issue.col, 0))
  \o <<":">> \o issue.severity
  \o <<"{">> \o issue.confidence \o <<"}">>
  \o <<":">> \o issue.description
  \o <<" ", "[", "-", "W">> \o issue.detector_id \o <<"]">>

\* ConsoleNoter.formatted, lines 29-37: the template
\* '{source}:{row}:{col}:{severity}{{{confidence}}}:{description} [-W{detector_id}]'
\* filled in; severity and description are what issue.severity() and
\* issue.brief_description() return
formatted(issue) ==
  noneif(issue.source, <<"(", "g", "l", "o", "b", "a", "l", ")">>)
  \o <<":">> \o Decimal(noneif(issue.row, 0))
  \o <<":">> \o Decimal(noneif(issue.col, 0))
  \o <<":">> \o issue.severity
  \o <<"{">> \o issue.confidence \o <<"}">>
  \o <<":">> \o issue.description
  \o <<" ", "[", "-", "W">> \o issue.detector_id \o <<"]">>

\* the issues of the store: with and without a source, a row and a col
ReportInit ==
  /\ ppc = "done" /\ q = <<>> /\ yielded = <<>> /\ lines = <<>>
  /\ captured = 0
  /\ IndexIdle
  /\ dpc = "generate"
  /\ di = 1
  /\ issues \in
       SeqsUpTo([source : {<<>>, <<<<"L", "c", "o", "m", "/", "a", "p", "p",
                                     "/", "M", "a", "i", "n", ";", "-", ">",
                                     "s", "a", "v", "e", "(", ")", "V">>>>},
                 row : {<<>>, <<0>>, <<12>>},
                 col : {<<>>, <<7>>},
                 severity : {<<"i", "n", "f", "o">>},
                 confidence : {<<"c", "e", "r", "t", "a", "i", "n">>},
                 description : {<<"d", "e", "t", "e", "c", "t", "e", "d", " ",
                                  "S", "h", "a", "r", "e", "d", "P", "r", "e",
                                  "f", "e", "r", "e", "n", "c", "e", " ", "a",
                                  "c", "c", "e", "s", "s", ":", " ", "k">>},
                 detector_id : {<<"s", "e", "c", "u", "r", "i", "t", "y", "-",
                                  "s", "h", "a", "r", "e", "d", "p", "r", "e",
                                  "f">>}],
                MaxIssues)
  /\ written = <<>>
  /\ sites = <<>> /\ inner_sites = <<>> /\ resources = <<>>
  /\ found = {} /\ attestations = {} /\ previous = <<>>
  /\ min_sdk = 0 /\ debuggable = FALSE /\ targets = {}
  /\ trust_methods = {} /\ init_typesets = {}
  /\ verifier_methods = {} /\ pin_nsc = FALSE
  /\ layout_path = <<>> /\ elements = <<>> /\ guessed = <<>>
  /\ parents = <<>> /\ classes = {} /\ more = FALSE

\* CIReportGenerator.generate, lines 50-51: one turn of the loop, or its end
Generate ==
  /\ dpc = "generate"
  /\ IF di <= Len(issues)
     THEN /\ written' = Append(written, formatted(issues[di]) \o <<"\n">>)
          /\ di' = di + 1
          /\ dpc' = dpc
     ELSE /\ dpc' = "done"
          /\ UNCHANGED <<di, written>>
  /\ UNCHANGED <<parseVars, indexVars, issues, min_sdk, debuggable,
                 resources, sites, inner_sites, trust_methods, init_typesets,
                 verifier_methods, pin_nsc, targets, layout_path, elements,
                 guessed, parents, classes, more, found, attestations,
                 previous>>

SpecReport == ReportInit /\ [][Generate]_vars

\* the line of the issue k with flag before the detector id: source, or
\* (global) when there is none, row and col in decimal, or 0 when there is
\* none, and the other fields as they are
ReportLine(k, flag) ==
  (IF issues[k].source = <<>> THEN <<"(", "g", "l", "o", "b", "a", "l", ")">>
   ELSE issues[k].source[1])
  \o <<":">>
  \o (IF issues[k].row = <<>> THEN <<"0">> ELSE Decimal(issues[k].row[1]))
  \o <<":">>
  \o (IF issues[k].col = <<>> THEN <<"0">> ELSE Decimal(issues[k].col[1]))
  \o <<":">> \o issues[k].severity
  \o <<"{">> \o issues[k].confidence \o <<"}", ":">>
  \o issues[k].description
  \o <<" ", "[">> \o flag \o issues[k].detector_id \o <<"]", "\n">>

\* C16: generate writes one line per issue of the store, in their order,
\* and the line of an issue is
\* source:row:col:severity{confidence}:description [-Wdetector_id], the
\* detector id directly after -W, with (global) for a missing source and 0
\* for a missing row or col.
C16_OneLinePerIssue ==
  /\ Len(written) = di - 1
  /\ dpc = "done" => Len(written) = Len(issues)
  /\ \A k \in DOMAIN written : written[k] = ReportLine(k, <<"-", "W">>)

\* two lines written, of an issue without source, row and col and of an
\* issue that has them
C16_Witness ==
  /\ dpc = "done"
  /\ Len(written) = 2
  /\ issues[1].source = <<>> /\ issues[1].row = <<>> /\ issues[1].col = <<>>
  /\ issues[2].source # <<>> /\ issues[2].row = <<12>>
  /\ issues[2].col = <<7>>

\* C16 as stated: the line ends with [-W detector_id], a space between -W
\* and the detector id.
C16_SpaceAfterFlag ==
  /\ Len(written) = di - 1
  /\ dpc = "done" => Len(written) = Len(issues)
  /\ \A k \in DOMAIN written : written[k] = ReportLine(k, <<"-", "W", " ">>)

====
